---- MODULE Spec2Model ----
(***************************************************************************)
(* secure-task-api: the authentication core (JWTManager, password hashing, *)
(* AuthMiddleware), the auth handlers Register / Login / Refresh over the *)
(* user repository, the task handlers over the task repository, the       *)
(* request log and the startup of the server.                              *)
(*                                                                         *)
(* Time is counted in whole seconds.  A signed token is modelled           *)
(* symbolically: its signature is the triple (key, header, claims) it was  *)
(* computed from, so a signature verifies exactly when the verifier's key  *)
(* and the presented header and claims are the ones that were signed.      *)
(***************************************************************************)
EXTENDS Integers, Sequences, FiniteSets, TLC

\* ------------------------------------------------------------------------
\* Bounds of the model
\* ------------------------------------------------------------------------
\* last second of the clock
MaxTime == 4
\* largest number of seconds the clock advances while one handler runs
MaxSkew == 1
\* largest number of user records ever created
MaxUsers == 2
\* largest number of rows ever inserted into the tasks table
MaxTasks == 2
\* largest number of requests that run concurrently
MaxFlight == 2

\* ------------------------------------------------------------------------
\* Value domains
\* ------------------------------------------------------------------------
Null == -2

Emails == {"a@b.com", "c@d.com"}
\* passwords are sequences of bytes; NoText is the empty password
NoText == <<>>
Secret1 == <<1, 2, 3, 4, 5, 6>>
Secret2 == <<1, 2, 3, 4, 5, 7>>
Passwords == {Secret1, Secret2}
\* the passwords accounts are registered with
NewPasswords == {Secret1}
Names == {"A"}
Salts == {"salt1"}
Secrets == {"S1", "S2"}
Issuer == "secure-task-api"
Issuers == {Issuer, "other-api"}

\* the pairs of access-token and refresh-token lifetime the configuration may
\* carry; the positive ones are longer than the time one handler takes
Durations == {<<MaxSkew + 1, 0 - 1>>, <<MaxSkew + 2, MaxSkew + 1>>}

UUIDs == 1 .. MaxUsers

Min(a, b) == IF a < b THEN a ELSE b

\* ------------------------------------------------------------------------
\* Strings that carry a UUID: the text forms uuid.Parse tells apart
\* ------------------------------------------------------------------------
EmptyStr == [enc |-> "empty", id |-> 0]
JunkStr == [enc |-> "junk", id |-> 0]

\* uuid.UUID.String(): the canonical 36-character form
UUIDString(u) == [enc |-> "canonical", id |-> u]

\* another text form of the same UUID that uuid.Parse accepts
UUIDUrn(u) == [enc |-> "urn", id |-> u]

\* uuid.Parse: the UUID of a canonical or urn:uuid: text, an error otherwise
UUIDParse(s) ==
    IF s.enc \in {"canonical", "urn"}
    THEN [err |-> FALSE, id |-> s.id]
    ELSE [err |-> TRUE, id |-> 0]

\* ------------------------------------------------------------------------
\* Passwords (bcrypt)
\* ------------------------------------------------------------------------
\* the bytes of the key that Blowfish reads: 18 words of 4 bytes
BcryptKeyLen == 72

\* the key bcrypt derives from a password: the password and a closing zero
\* byte, read cyclically until the 72 bytes are filled (blowfish.ExpandKey).
\* The 72 bytes are written as their shortest period: two keys are equal
\* exactly when their shortest periods are. The shortest period of a
\* password of at most 71 bytes without a zero byte is the password with
\* its closing zero.
BcryptKey(password) ==
    LET ckey == Append(password, 0)
        key == [i \in 1 .. BcryptKeyLen |-> ckey[((i - 1) % Len(ckey)) + 1]]
        Period(n) == \A i \in 1 .. BcryptKeyLen : key[i] = key[((i - 1) % n) + 1]
        n == CHOOSE n \in 1 .. BcryptKeyLen :
                 Period(n) /\ \A m \in 1 .. (n - 1) : ~Period(m)
    IN  IF Len(ckey) <= BcryptKeyLen
           /\ \A i \in 1 .. Len(password) : password[i] # 0
        THEN ckey
        ELSE SubSeq(key, 1, n)

\* bcrypt digest of a password under a salt
BcryptDigest(salt, password) == <<salt, BcryptKey(password)>>

\* the empty string in the place of a hash
NoHash == [salt |-> "", digest |-> <<>>]

\* strict: the bcrypt of the build is one whose GenerateFromPassword refuses
\* a password of more than 72 bytes (ErrPasswordTooLong); the earlier ones
\* hash it
HashPassword(password, salt, strict) ==
    IF strict /\ Len(password) > BcryptKeyLen
    THEN [hashed |-> NoHash, err |-> TRUE]
    ELSE [hashed |-> [salt |-> salt, digest |-> BcryptDigest(salt, password)],
          err |-> FALSE]

\* the builds that differ in the hashing of the password: those with a strict
\* bcrypt and those without, for a password of more than 72 bytes
Builds(password) ==
    IF Len(password) > BcryptKeyLen THEN BOOLEAN ELSE {FALSE}

\* TRUE when the password matches (CheckPassword returns nil);
\* CompareHashAndPassword refuses a hash that is too short and has no limit
\* on the password
CheckPassword(password, hashed) ==
    /\ hashed # NoHash
    /\ hashed.digest = BcryptDigest(hashed.salt, password)

\* ------------------------------------------------------------------------
\* Tokens
\* ------------------------------------------------------------------------
NoClaims ==
    [user_id |-> EmptyStr, email |-> "", sub |-> EmptyStr, iss |-> "",
     exp |-> Null, iat |-> Null, nbf |-> Null]

NoSig == [key |-> "", alg |-> "", claims |-> NoClaims]

\* the HMAC of header and claims under a key
HMACSign(key, alg, claims) == [key |-> key, alg |-> alg, claims |-> claims]

\* jwt.NewWithClaims(method, claims).SignedString(key)
SignedString(alg, claims, key) ==
    [wf |-> TRUE, alg |-> alg, claims |-> claims,
     sig |-> HMACSign(key, alg, claims)]

\* a string that is not three base64 segments
Garbage == [wf |-> FALSE, alg |-> "", claims |-> NoClaims, sig |-> NoSig]

NewJWTManager(secret, accessDuration, refreshDuration) ==
    [secret |-> secret,
     accessTokenDuration |-> accessDuration,
     refreshTokenDuration |-> refreshDuration]

\* GenerateAccessToken that leaves the email out of the claims
GenerateAccessTokenNoEmail(j, userID, email, t1, t2, t3) ==
    SignedString("HS256",
        [user_id |-> UUIDString(userID), email |-> "", sub |-> EmptyStr,
         iss |-> Issuer,
         exp |-> t1 + j.accessTokenDuration, iat |-> t2, nbf |-> t3],
        j.secret)

\* t1, t2, t3: the three successive readings of time.Now()
GenerateAccessToken(j, userID, email, t1, t2, t3) ==
    SignedString("HS256",
        [user_id |-> UUIDString(userID), email |-> email, sub |-> EmptyStr,
         iss |-> Issuer,
         exp |-> t1 + j.accessTokenDuration, iat |-> t2, nbf |-> t3],
        j.secret)

GenerateRefreshToken(j, userID, t1, t2, t3) ==
    SignedString("HS256",
        [user_id |-> EmptyStr, email |-> "", sub |-> UUIDString(userID),
         iss |-> Issuer,
         exp |-> t1 + j.refreshTokenDuration, iat |-> t2, nbf |-> t3],
        j.secret)

\* what GenerateAccessToken or GenerateRefreshToken returns: the token
\* string of a signed token, or the empty string and the error
Signed(tok) == [str |-> <<[k |-> "jwt", jwt |-> tok]>>, err |-> FALSE]
SigningError == [str |-> <<>>, err |-> TRUE]

\* GenerateTokenPair that returns its named results as they stand
GenerateTokenPairNaked(access, refresh) ==
    [accessToken |-> access.str, refreshToken |-> refresh.str,
     err |-> access.err \/ refresh.err]

\* the body of GenerateTokenPair over the results of its two calls
GenerateTokenPairOf(access, refresh) ==
    IF access.err
    THEN [accessToken |-> <<>>, refreshToken |-> <<>>, err |-> TRUE]
    ELSE IF refresh.err
    THEN [accessToken |-> <<>>, refreshToken |-> <<>>, err |-> TRUE]
    ELSE [accessToken |-> access.str, refreshToken |-> refresh.str,
          err |-> FALSE]

\* rd: six successive readings of the clock.  Signing with HMAC under a
\* byte-slice key does not fail, so both calls return a token.
GenerateTokenPair(j, userID, email, rd) ==
    LET p == GenerateTokenPairOf(
                 Signed(GenerateAccessToken(j, userID, email,
                                            rd[1], rd[2], rd[3])),
                 Signed(GenerateRefreshToken(j, userID, rd[4], rd[5], rd[6])))
    IN  [accessToken |-> p.accessToken[1].jwt,
         refreshToken |-> p.refreshToken[1].jwt,
         err |-> p.err]

\* ParseWithClaims that still accepts a token at its expires-at second
ParseWithClaimsInclusive(tok, full, secret, t) ==
    LET c == IF full THEN tok.claims
             ELSE [tok.claims EXCEPT !.user_id = EmptyStr, !.email = ""]
    IN  IF ~tok.wf THEN [err |-> "malformed", claims |-> NoClaims]
        ELSE IF tok.alg \notin {"HS256", "HS384", "HS512"}
        THEN [err |-> "unverifiable", claims |-> c]
        ELSE IF tok.sig # HMACSign(secret, tok.alg, tok.claims)
        THEN [err |-> "signature invalid", claims |-> c]
        ELSE IF c.exp # Null /\ ~(t <= c.exp)
        THEN [err |-> "expired", claims |-> c]
        ELSE IF c.nbf # Null /\ t < c.nbf
        THEN [err |-> "not valid yet", claims |-> c]
        ELSE [err |-> "", claims |-> c]

\* ParseWithClaims that verifies the signature under the key the token names
ParseWithClaimsAnyKey(tok, full, secret, t) ==
    LET c == IF full THEN tok.claims
             ELSE [tok.claims EXCEPT !.user_id = EmptyStr, !.email = ""]
    IN  IF ~tok.wf THEN [err |-> "malformed", claims |-> NoClaims]
        ELSE IF tok.alg \notin {"HS256", "HS384", "HS512"}
        THEN [err |-> "unverifiable", claims |-> c]
        ELSE IF tok.sig # HMACSign(tok.sig.key, tok.alg, tok.claims)
        THEN [err |-> "signature invalid", claims |-> c]
        ELSE IF c.exp # Null /\ ~(t < c.exp)
        THEN [err |-> "expired", claims |-> c]
        ELSE IF c.nbf # Null /\ t < c.nbf
        THEN [err |-> "not valid yet", claims |-> c]
        ELSE [err |-> "", claims |-> c]

\* jwt.ParseWithClaims with the key function of the JWTManager: the token
\* must have three segments, an HMAC algorithm, a signature that verifies
\* under the secret, and then time claims that hold at time t.
\* full = TRUE decodes into Claims, FALSE into jwt.RegisteredClaims.
ParseWithClaims(tok, full, secret, t) ==
    LET c == IF full THEN tok.claims
             ELSE [tok.claims EXCEPT !.user_id = EmptyStr, !.email = ""]
    IN  IF ~tok.wf THEN [err |-> "malformed", claims |-> NoClaims]
        ELSE IF tok.alg \notin {"HS256", "HS384", "HS512"}
        THEN [err |-> "unverifiable", claims |-> c]
        ELSE IF tok.sig # HMACSign(secret, tok.alg, tok.claims)
        THEN [err |-> "signature invalid", claims |-> c]
        ELSE IF c.exp # Null /\ ~(t < c.exp)
        THEN [err |-> "expired", claims |-> c]
        ELSE IF c.nbf # Null /\ t < c.nbf
        THEN [err |-> "not valid yet", claims |-> c]
        ELSE [err |-> "", claims |-> c]

ValidateToken(j, tok, t) ==
    LET p == ParseWithClaims(tok, TRUE, j.secret, t)
    IN  IF p.err # ""
        THEN [err |-> p.err, claims |-> NoClaims]
        ELSE [err |-> "", claims |-> p.claims]

\* ValidateRefreshToken without the comparison of the issuer
ValidateRefreshTokenNoIssuer(j, tok, t1, t2) ==
    LET p == ParseWithClaims(tok, FALSE, j.secret, t1)
    IN  IF p.err # ""
        THEN [err |-> "failed to parse refresh token", cause |-> p.err,
              sub |-> EmptyStr]
        ELSE IF p.claims.exp = Null \/ t2 > p.claims.exp
        THEN [err |-> "refresh token has expired", cause |-> "",
              sub |-> EmptyStr]
        ELSE IF p.claims.sub = EmptyStr
        THEN [err |-> "token missing subject", cause |-> "", sub |-> EmptyStr]
        ELSE [err |-> "", cause |-> "", sub |-> p.claims.sub]

\* ValidateRefreshToken that parses without the expiry validation and has no
\* expiry check of its own
ValidateRefreshTokenNoExpiry(j, tok, t1, t2) ==
    LET p == ParseWithClaims(tok, FALSE, j.secret, t1)
    IN  IF p.err \notin {"", "expired"}
        THEN [err |-> "failed to parse refresh token", cause |-> p.err,
              sub |-> EmptyStr]
        ELSE IF p.claims.iss # Issuer
        THEN [err |-> "invalid token issuer", cause |-> "", sub |-> EmptyStr]
        ELSE IF p.claims.sub = EmptyStr
        THEN [err |-> "token missing subject", cause |-> "", sub |-> EmptyStr]
        ELSE [err |-> "", cause |-> "", sub |-> p.claims.sub]

\* ValidateRefreshToken that compares the issuer of the token before the
\* token is parsed and verified
ValidateRefreshTokenIssuerFirst(j, tok, t1, t2) ==
    LET p == ParseWithClaims(tok, FALSE, j.secret, t1)
    IN  IF tok.wf /\ tok.claims.iss # Issuer
        THEN [err |-> "invalid token issuer", cause |-> "", sub |-> EmptyStr]
        ELSE IF p.err # ""
        THEN [err |-> "failed to parse refresh token", cause |-> p.err,
              sub |-> EmptyStr]
        ELSE IF p.claims.exp = Null \/ t2 > p.claims.exp
        THEN [err |-> "refresh token has expired", cause |-> "",
              sub |-> EmptyStr]
        ELSE IF p.claims.sub = EmptyStr
        THEN [err |-> "token missing subject", cause |-> "", sub |-> EmptyStr]
        ELSE [err |-> "", cause |-> "", sub |-> p.claims.sub]

\* ValidateRefreshToken without the check of the subject
ValidateRefreshTokenAnySubject(j, tok, t1, t2) ==
    LET p == ParseWithClaims(tok, FALSE, j.secret, t1)
    IN  IF p.err # ""
        THEN [err |-> "failed to parse refresh token", cause |-> p.err,
              sub |-> EmptyStr]
        ELSE IF p.claims.iss # Issuer
        THEN [err |-> "invalid token issuer", cause |-> "", sub |-> EmptyStr]
        ELSE IF p.claims.exp = Null \/ t2 > p.claims.exp
        THEN [err |-> "refresh token has expired", cause |-> "",
              sub |-> EmptyStr]
        ELSE [err |-> "", cause |-> "", sub |-> p.claims.sub]

\* t1: the clock when the library validates, t2: when line 123 reads it;
\* cause: the error of the library that the returned error wraps
ValidateRefreshToken(j, tok, t1, t2) ==
    LET p == ParseWithClaims(tok, FALSE, j.secret, t1)
    IN  IF p.err # ""
        THEN [err |-> "failed to parse refresh token", cause |-> p.err,
              sub |-> EmptyStr]
        ELSE IF p.claims.iss # Issuer
        THEN [err |-> "invalid token issuer", cause |-> "", sub |-> EmptyStr]
        ELSE IF p.claims.exp = Null \/ t2 > p.claims.exp
        THEN [err |-> "refresh token has expired", cause |-> "",
              sub |-> EmptyStr]
        ELSE IF p.claims.sub = EmptyStr
        THEN [err |-> "token missing subject", cause |-> "", sub |-> EmptyStr]
        ELSE [err |-> "", cause |-> "", sub |-> p.claims.sub]

\* ------------------------------------------------------------------------
\* Strings made of pieces: a word, a space, other white space, or a token
\* ------------------------------------------------------------------------
W(s) == [k |-> "word", w |-> s]
SP == [k |-> "space"]
TAB == [k |-> "tab"]
J(tok) == [k |-> "jwt", jwt |-> tok]

IsSpace(p) == p.k \in {"space", "tab"}

\* the token a token string denotes: a string that is not exactly one token
\* does not split into three segments
TokenOf(str) ==
    IF Len(str) = 1 /\ str[1].k = "jwt" THEN str[1].jwt ELSE Garbage

RECURSIVE TrimLeft(_)
TrimLeft(s) ==
    IF s # <<>> /\ IsSpace(Head(s)) THEN TrimLeft(Tail(s)) ELSE s

RECURSIVE TrimRight(_)
TrimRight(s) ==
    IF s # <<>> /\ IsSpace(s[Len(s)])
    THEN TrimRight(SubSeq(s, 1, Len(s) - 1))
    ELSE s

\* strings.TrimSpace
TrimSpace(s) == TrimRight(TrimLeft(s))

\* strings.SplitN(s, " ", 2)
SplitN2(s) ==
    LET idx == {i \in 1 .. Len(s) : s[i] = SP}
    IN  IF idx = {} THEN <<s>>
        ELSE LET i == CHOOSE m \in idx : \A n \in idx : m <= n
             IN  <<SubSeq(s, 1, i - 1), SubSeq(s, i + 1, Len(s))>>

\* bearerToken that returns the part after the first space as it is
bearerTokenNoTrim(header) ==
    LET parts == SplitN2(header)
    IN  IF Len(parts) # 2 \/ parts[1] # <<W("Bearer")>>
        THEN <<>>
        ELSE parts[2]

bearerToken(header) ==
    LET parts == SplitN2(header)
    IN  IF Len(parts) # 2 \/ parts[1] # <<W("Bearer")>>
        THEN <<>>
        ELSE TrimSpace(parts[2])

\* ------------------------------------------------------------------------
\* HTTP responses
\* ------------------------------------------------------------------------
NoUser == [ID |-> 0, Email |-> "", Name |-> ""]

NoCtx == [user_id |-> EmptyStr, email |-> "", set |-> FALSE]

StatusText(status) ==
    CASE status = 400 -> "Bad Request"
      [] status = 401 -> "Unauthorized"
      [] status = 404 -> "Not Found"
      [] status = 500 -> "Internal Server Error"
      [] OTHER -> ""

Body(success, error, message, ts, code, user, token, refresh) ==
    [success |-> success, error |-> error, message |-> message,
     timestamp |-> ts, status_code |-> code,
     user |-> user, token |-> token, refresh_token |-> refresh]

\* utils.JSONError; ts is the time.Now() it reads
JSONError(status, message, ts) ==
    [status |-> status,
     body |-> Body(FALSE, StatusText(status), message, ts, status,
                   NoUser, <<>>, <<>>)]

Unauthorized(message, ts) == JSONError(401, message, ts)
BadRequest(message, ts) == JSONError(400, message, ts)
InternalServerError(message, ts) == JSONError(500, message, ts)

\* utils.JSONSuccess with a models.AuthResponse whose user is serialized with
\* its password hash
AuthResponseWithHash(status, user, accessToken, refreshToken) ==
    [status |-> status,
     body |-> Body(TRUE, "", "", Null, Null,
                   [ID |-> user.ID, Email |-> user.Email, Name |-> user.Name,
                    PasswordHash |-> user.PasswordHash],
                   <<J(accessToken)>>, <<J(refreshToken)>>)]

\* utils.JSONSuccess with a models.AuthResponse; the password hash of the
\* user is not among the serialized fields
AuthResponse(status, user, accessToken, refreshToken) ==
    [status |-> status,
     body |-> Body(TRUE, "", "", Null, Null,
                   [ID |-> user.ID, Email |-> user.Email, Name |-> user.Name],
                   <<J(accessToken)>>, <<J(refreshToken)>>)]

\* the response of the middleware's own unauthorized helper
unauthorized(msg) ==
    [status |-> 401,
     body |-> Body(FALSE, "unauthorized", msg, Null, Null, NoUser, <<>>, <<>>)]

\* ------------------------------------------------------------------------
\* AuthMiddleware
\* ------------------------------------------------------------------------
\* observations
VARIABLES
    consumed, \* the refresh token of the last successful Refresh, or Garbage
    call,     \* the last direct call of a function and its result
    boot      \* the environment of the process and the position of main

\* AuthMiddleware that keeps the context of the request it authenticated
\* last and attaches it to the next request with a Bearer token
AuthMiddlewareCached(j, authHeader, t) ==
    LET token == bearerToken(authHeader)
        v == ValidateToken(j, TokenOf(token), t)
        cached == call.fn = "AuthMiddleware" /\ call.first.next
    IN  IF authHeader = <<>>
        THEN [next |-> FALSE, ctx |-> NoCtx,
              resp |-> unauthorized("authorization header missing")]
        ELSE IF token = <<>>
        THEN [next |-> FALSE, ctx |-> NoCtx,
              resp |-> unauthorized("invalid authorization header")]
        ELSE IF cached
        THEN call.first
        ELSE IF v.err # ""
        THEN [next |-> FALSE, ctx |-> NoCtx,
              resp |-> unauthorized("invalid or expired token")]
        ELSE [next |-> TRUE,
              ctx |-> [set |-> TRUE, user_id |-> v.claims.user_id,
                       email |-> v.claims.email],
              resp |-> [status |-> 0,
                        body |-> Body(FALSE, "", "", Null, Null,
                                      NoUser, <<>>, <<>>)]]

\* AuthMiddleware without the return after a failed validation
AuthMiddlewareNoReturn(j, authHeader, t) ==
    LET token == bearerToken(authHeader)
        v == ValidateToken(j, TokenOf(token), t)
    IN  IF authHeader = <<>>
        THEN [next |-> FALSE, ctx |-> NoCtx,
              resp |-> unauthorized("authorization header missing")]
        ELSE IF token = <<>>
        THEN [next |-> FALSE, ctx |-> NoCtx,
              resp |-> unauthorized("invalid authorization header")]
        ELSE [next |-> TRUE,
              ctx |-> [set |-> TRUE, user_id |-> v.claims.user_id,
                       email |-> v.claims.email],
              resp |-> [status |-> 0,
                        body |-> Body(FALSE, "", "", Null, Null,
                                      NoUser, <<>>, <<>>)]]

\* AuthMiddleware that reports the validator's error to the client
AuthMiddlewareLeaky(j, authHeader, t) ==
    LET token == bearerToken(authHeader)
        v == ValidateToken(j, TokenOf(token), t)
    IN  IF authHeader = <<>>
        THEN [next |-> FALSE, ctx |-> NoCtx,
              resp |-> unauthorized("authorization header missing")]
        ELSE IF token = <<>>
        THEN [next |-> FALSE, ctx |-> NoCtx,
              resp |-> unauthorized("invalid authorization header")]
        ELSE IF v.err # ""
        THEN [next |-> FALSE, ctx |-> NoCtx, resp |-> unauthorized(v.err)]
        ELSE [next |-> TRUE,
              ctx |-> [set |-> TRUE, user_id |-> v.claims.user_id,
                       email |-> v.claims.email],
              resp |-> [status |-> 0,
                        body |-> Body(FALSE, "", "", Null, Null,
                                      NoUser, <<>>, <<>>)]]

\* t: the clock when ValidateToken runs.  next = TRUE: the request is handed
\* to the downstream handler with ctx attached.
AuthMiddleware(j, authHeader, t) ==
    LET token == bearerToken(authHeader)
        v == ValidateToken(j, TokenOf(token), t)
    IN  IF authHeader = <<>>
        THEN [next |-> FALSE, ctx |-> NoCtx,
              resp |-> unauthorized("authorization header missing")]
        ELSE IF token = <<>>
        THEN [next |-> FALSE, ctx |-> NoCtx,
              resp |-> unauthorized("invalid authorization header")]
        ELSE IF v.err # ""
        THEN [next |-> FALSE, ctx |-> NoCtx,
              resp |-> unauthorized("invalid or expired token")]
        ELSE [next |-> TRUE,
              ctx |-> [set |-> TRUE, user_id |-> v.claims.user_id,
                       email |-> v.claims.email],
              resp |-> [status |-> 0,
                        body |-> Body(FALSE, "", "", Null, Null,
                                      NoUser, <<>>, <<>>)]]

\* the entry of every task handler: the user id of the context must parse
TaskHandlerEntry(ctx, t) ==
    IF ~ctx.set
    THEN Unauthorized("User not authenticated", t)
    ELSE IF UUIDParse(ctx.user_id).err
    THEN InternalServerError("Invalid user context", t)
    ELSE [status |-> 200,
          body |-> Body(TRUE, "", "", Null, Null, NoUser, <<>>, <<>>)]

\* ------------------------------------------------------------------------
\* User repository
\* ------------------------------------------------------------------------
NoRow == [ID |-> 0, Email |-> "", PasswordHash |-> NoHash,
          Name |-> ""]

\* SELECT ... WHERE email = $1; NoRow stands for the nil user
GetByEmail(us, email) ==
    IF \E u \in us : u.Email = email
    THEN CHOOSE u \in us : u.Email = email
    ELSE NoRow

\* SELECT ... WHERE id = $1
GetByID(us, id) ==
    IF \E u \in us : u.ID = id
    THEN CHOOSE u \in us : u.ID = id
    ELSE NoRow

\* INSERT of the user under a fresh id (uuid.New())
Create(us, id, user) == us \cup {[user EXCEPT !.ID = id]}

\* ------------------------------------------------------------------------
\* Auth handlers.  req: the decoded request; db: 0 when the database
\* answers every call, n when its n-th call of the handler fails; rd: the
\* successive readings of the clock the handler makes.
\* ------------------------------------------------------------------------
Result(resp, us, created, end) ==
    [resp |-> resp, users |-> us, created |-> created, end |-> end]

\* Register without the lookup of an existing user
RegisterNoLookup(j, us, id, req, db, salt, strict, rd) ==
    LET passwordHash == HashPassword(req.password, salt, strict)
        user == [ID |-> id, Email |-> req.email,
                 PasswordHash |-> passwordHash.hashed, Name |-> req.name]
        pair == GenerateTokenPair(j, id, req.email, rd)
    IN  IF ~req.json
        THEN Result(BadRequest("Invalid request body", rd[1]), us, FALSE, rd[1])
        ELSE IF req.email = "" \/ req.password = NoText \/ req.name = ""
        THEN Result(BadRequest("Email, password, and name are required", rd[1]),
                    us, FALSE, rd[1])
        ELSE IF db = 1 \/ passwordHash.err \/ db = 2
        THEN Result(InternalServerError("Failed to register user", rd[1]),
                    us, FALSE, rd[1])
        ELSE Result(AuthResponse(201, user, pair.accessToken, pair.refreshToken),
                    Create(us, id, user), TRUE, rd[6])

Register(j, us, id, req, db, salt, strict, rd) ==
    LET existingUser == GetByEmail(us, req.email)
        passwordHash == HashPassword(req.password, salt, strict)
        user == [ID |-> id, Email |-> req.email,
                 PasswordHash |-> passwordHash.hashed, Name |-> req.name]
        pair == GenerateTokenPair(j, id, req.email, rd)
    IN  IF ~req.json
        THEN Result(BadRequest("Invalid request body", rd[1]), us, FALSE, rd[1])
        ELSE IF req.email = "" \/ req.password = NoText \/ req.name = ""
        THEN Result(BadRequest("Email, password, and name are required", rd[1]),
                    us, FALSE, rd[1])
        ELSE IF db = 1
        THEN Result(InternalServerError("Failed to register user", rd[1]),
                    us, FALSE, rd[1])
        ELSE IF existingUser # NoRow
        THEN Result(BadRequest("User with this email already exists", rd[1]),
                    us, FALSE, rd[1])
        ELSE IF passwordHash.err
        THEN Result(InternalServerError("Failed to register user", rd[1]),
                    us, FALSE, rd[1])
        ELSE IF db = 2
        THEN Result(InternalServerError("Failed to register user", rd[1]),
                    us, FALSE, rd[1])
        ELSE Result(AuthResponse(201, user, pair.accessToken, pair.refreshToken),
                    Create(us, id, user), TRUE, rd[6])

\* Login that tells an unknown email from a wrong password
LoginUserNotFound(j, us, req, db, rd) ==
    LET user == GetByEmail(us, req.email)
        pair == GenerateTokenPair(j, user.ID, user.Email, rd)
    IN  IF ~req.json
        THEN Result(BadRequest("Invalid request body", rd[1]), us, FALSE, rd[1])
        ELSE IF req.email = "" \/ req.password = NoText
        THEN Result(BadRequest("Email and password are required", rd[1]),
                    us, FALSE, rd[1])
        ELSE IF db = 1
        THEN Result(InternalServerError("Failed to login", rd[1]),
                    us, FALSE, rd[1])
        ELSE IF user = NoRow
        THEN Result(Unauthorized("User not found", rd[1]), us, FALSE, rd[1])
        ELSE IF ~CheckPassword(req.password, user.PasswordHash)
        THEN Result(Unauthorized("Invalid email or password", rd[1]),
                    us, FALSE, rd[1])
        ELSE Result(AuthResponse(200, user, pair.accessToken, pair.refreshToken),
                    us, FALSE, rd[6])

Login(j, us, req, db, rd) ==
    LET user == GetByEmail(us, req.email)
        pair == GenerateTokenPair(j, user.ID, user.Email, rd)
    IN  IF ~req.json
        THEN Result(BadRequest("Invalid request body", rd[1]), us, FALSE, rd[1])
        ELSE IF req.email = "" \/ req.password = NoText
        THEN Result(BadRequest("Email and password are required", rd[1]),
                    us, FALSE, rd[1])
        ELSE IF db = 1
        THEN Result(InternalServerError("Failed to login", rd[1]),
                    us, FALSE, rd[1])
        ELSE IF user = NoRow
        THEN Result(Unauthorized("Invalid email or password", rd[1]),
                    us, FALSE, rd[1])
        ELSE IF ~CheckPassword(req.password, user.PasswordHash)
        THEN Result(Unauthorized("Invalid email or password", rd[1]),
                    us, FALSE, rd[1])
        ELSE Result(AuthResponse(200, user, pair.accessToken, pair.refreshToken),
                    us, FALSE, rd[6])

\* Refresh that accepts a refresh token once: the token of the last
\* successful Refresh is refused
RefreshOnce(j, us, req, db, rd) ==
    LET v == ValidateRefreshToken(j, TokenOf(req.token), rd[1], rd[2])
        userID == UUIDParse(v.sub)
        user == GetByID(us, userID.id)
        pair == GenerateTokenPair(j, user.ID, user.Email, SubSeq(rd, 3, 8))
    IN  IF ~req.json
        THEN Result(BadRequest("Invalid request body", rd[1]), us, FALSE, rd[1])
        ELSE IF req.token = <<>>
        THEN Result(BadRequest("refresh_token is required", rd[1]),
                    us, FALSE, rd[1])
        ELSE IF v.err # "" \/ (consumed.wf /\ TokenOf(req.token) = consumed)
        THEN Result(Unauthorized("Invalid or expired refresh token", rd[2]),
                    us, FALSE, rd[2])
        ELSE IF userID.err
        THEN Result(Unauthorized("Invalid token", rd[2]), us, FALSE, rd[2])
        ELSE IF db = 1
        THEN Result(InternalServerError("Failed to refresh token", rd[2]),
                    us, FALSE, rd[2])
        ELSE IF user = NoRow
        THEN Result(Unauthorized("User not found", rd[2]), us, FALSE, rd[2])
        ELSE Result(AuthResponse(200, user, pair.accessToken, pair.refreshToken),
                    us, FALSE, rd[8])

\* Refresh that issues the pair for the token's subject without looking the
\* user up
RefreshNoLookup(j, us, req, db, rd) ==
    LET v == ValidateRefreshToken(j, TokenOf(req.token), rd[1], rd[2])
        userID == UUIDParse(v.sub)
        user == [NoRow EXCEPT !.ID = userID.id]
        pair == GenerateTokenPair(j, user.ID, user.Email, SubSeq(rd, 3, 8))
    IN  IF ~req.json
        THEN Result(BadRequest("Invalid request body", rd[1]), us, FALSE, rd[1])
        ELSE IF req.token = <<>>
        THEN Result(BadRequest("refresh_token is required", rd[1]),
                    us, FALSE, rd[1])
        ELSE IF v.err # ""
        THEN Result(Unauthorized("Invalid or expired refresh token", rd[2]),
                    us, FALSE, rd[2])
        ELSE IF userID.err
        THEN Result(Unauthorized("Invalid token", rd[2]), us, FALSE, rd[2])
        ELSE Result(AuthResponse(200, user, pair.accessToken, pair.refreshToken),
                    us, FALSE, rd[8])

\* Refresh that sends the validator's error to the client
RefreshLeaky(j, us, req, db, rd) ==
    LET v == ValidateRefreshToken(j, TokenOf(req.token), rd[1], rd[2])
        userID == UUIDParse(v.sub)
        user == GetByID(us, userID.id)
        pair == GenerateTokenPair(j, user.ID, user.Email, SubSeq(rd, 3, 8))
    IN  IF ~req.json
        THEN Result(BadRequest("Invalid request body", rd[1]), us, FALSE, rd[1])
        ELSE IF req.token = <<>>
        THEN Result(BadRequest("refresh_token is required", rd[1]),
                    us, FALSE, rd[1])
        ELSE IF v.err # ""
        THEN Result(Unauthorized(v.err, rd[2]), us, FALSE, rd[2])
        ELSE IF userID.err
        THEN Result(Unauthorized("Invalid token", rd[2]), us, FALSE, rd[2])
        ELSE IF db = 1
        THEN Result(InternalServerError("Failed to refresh token", rd[2]),
                    us, FALSE, rd[2])
        ELSE IF user = NoRow
        THEN Result(Unauthorized("User not found", rd[2]), us, FALSE, rd[2])
        ELSE Result(AuthResponse(200, user, pair.accessToken, pair.refreshToken),
                    us, FALSE, rd[8])

\* rd[1], rd[2]: the two readings of ValidateRefreshToken; rd[3..8]: those
\* of GenerateTokenPair
Refresh(j, us, req, db, rd) ==
    LET v == ValidateRefreshToken(j, TokenOf(req.token), rd[1], rd[2])
        userID == UUIDParse(v.sub)
        user == GetByID(us, userID.id)
        pair == GenerateTokenPair(j, user.ID, user.Email, SubSeq(rd, 3, 8))
    IN  IF ~req.json
        THEN Result(BadRequest("Invalid request body", rd[1]), us, FALSE, rd[1])
        ELSE IF req.token = <<>>
        THEN Result(BadRequest("refresh_token is required", rd[1]),
                    us, FALSE, rd[1])
        ELSE IF v.err # ""
        THEN Result(Unauthorized("Invalid or expired refresh token", rd[2]),
                    us, FALSE, rd[2])
        ELSE IF userID.err
        THEN Result(Unauthorized("Invalid token", rd[2]), us, FALSE, rd[2])
        ELSE IF db = 1
        THEN Result(InternalServerError("Failed to refresh token", rd[2]),
                    us, FALSE, rd[2])
        ELSE IF user = NoRow
        THEN Result(Unauthorized("User not found", rd[2]), us, FALSE, rd[2])
        ELSE Result(AuthResponse(200, user, pair.accessToken, pair.refreshToken),
                    us, FALSE, rd[8])

\* ------------------------------------------------------------------------
\* State
\* ------------------------------------------------------------------------
VARIABLES
    now,      \* the clock, in seconds
    jwt,      \* the JWTManager built at startup
    users,    \* the rows of the users table
    created,  \* how many user rows were ever inserted
    resp,     \* the request being answered and its response, or NoResp
    tasks,    \* the rows of the tasks table
    flight    \* the requests that run concurrently, each with its position

vars == <<now, jwt, users, created, resp, consumed, call, boot, tasks, flight>>

NoReq ==
    [password |-> NoText, email |-> "", token |-> <<>>, db |-> 0,
     name |-> "", json |-> FALSE, hdr |-> <<>>]

NoResp ==
    [op |-> "", req |-> NoReq, status |-> 0,
     body |-> Body(FALSE, "", "", Null, Null, NoUser, <<>>, <<>>),
     next |-> FALSE, ctx |-> NoCtx, at |-> Null, replay |-> FALSE]

\* no function of the auth package has been called directly
NoCall == [fn |-> ""]

\* no request runs concurrently
NoFlight == <<>>

\* a duration variable of the environment: unset or empty, a text that
\* time.ParseDuration refuses, or the text of d seconds
DurationUnset == [set |-> FALSE, ok |-> FALSE, d |-> 0]
DurationJunk == [set |-> TRUE, ok |-> FALSE, d |-> 0]
DurationText(d) == [set |-> TRUE, ok |-> TRUE, d |-> d]

\* getEnv of LoadConfig: the fallback stands for an unset and for an empty
\* variable (os.Getenv returns "" for both)
getEnv(val, fallback) == IF val # "" THEN val ELSE fallback

\* parseDuration of LoadConfig
parseDuration(val, defaultVal) ==
    IF ~val.set THEN defaultVal
    ELSE IF ~val.ok THEN defaultVal
    ELSE val.d

\* 15*time.Minute and 7*24*time.Hour, in seconds
DefaultAccessDuration == 900
DefaultRefreshDuration == 604800

\* the fields of Config that startup reads
ConfigOf(env) ==
    [Database |-> [DSN |-> getEnv(env.DATABASE_URL, ""),
                   Host |-> getEnv(env.DB_HOST, "localhost"),
                   User |-> getEnv(env.DB_USER, "")],
     JWT |-> [Secret |-> getEnv(env.JWT_SECRET, ""),
              AccessTokenDuration |->
                  parseDuration(env.JWT_ACCESS_DURATION,
                                DefaultAccessDuration),
              RefreshTokenDuration |->
                  parseDuration(env.JWT_REFRESH_DURATION,
                                DefaultRefreshDuration)]]

\* the nil *Config
NoConfig ==
    [Database |-> [DSN |-> "", Host |-> "", User |-> ""],
     JWT |-> [Secret |-> "", AccessTokenDuration |-> 0,
              RefreshTokenDuration |-> 0]]

\* LoadConfig that does not require JWT_SECRET
LoadConfigAnySecret(env) ==
    LET cfg == ConfigOf(env)
    IN  IF cfg.Database.DSN = ""
           /\ (cfg.Database.Host = "" \/ cfg.Database.User = "")
        THEN [cfg |-> NoConfig, err |-> "database configuration missing"]
        ELSE [cfg |-> cfg, err |-> ""]

\* LoadConfig: the configuration built from the environment, or an error
LoadConfig(env) ==
    LET cfg == ConfigOf(env)
    IN  IF cfg.Database.DSN = ""
           /\ (cfg.Database.Host = "" \/ cfg.Database.User = "")
        THEN [cfg |-> NoConfig, err |-> "database configuration missing"]
        ELSE IF cfg.JWT.Secret = ""
        THEN [cfg |-> NoConfig, err |-> "JWT_SECRET is required"]
        ELSE [cfg |-> cfg, err |-> ""]

\* the nil *JWTManager of a main that has not built one
NilJWTManager == NewJWTManager("", 0, 0)

\* the process at the entry of main with environment env
Started(env) ==
    [pc |-> "LoadConfig", listening |-> FALSE, built |-> FALSE,
     exit |-> Null, err |-> "", env |-> env, cfg |-> NoConfig]

\* the environment a process with JWTManager j was started with
EnvOf(j) ==
    [JWT_SECRET |-> j.secret,
     JWT_ACCESS_DURATION |-> DurationText(j.accessTokenDuration),
     JWT_REFRESH_DURATION |-> DurationText(j.refreshTokenDuration),
     DATABASE_URL |-> "postgres://db", DB_HOST |-> "", DB_USER |-> ""]

\* the process whose main has reached the wait for the shutdown signal with
\* JWTManager j, while its server listens
Serving(j) ==
    [pc |-> "quit", listening |-> TRUE, built |-> TRUE, exit |-> Null,
     err |-> "", env |-> EnvOf(j), cfg |-> LoadConfig(EnvOf(j)).cfg]

\* the nondecreasing sequences of n clock readings a handler can make whose
\* first reading is t
Reads(n, t) ==
    {rd \in [1 .. n -> t .. Min(t + MaxSkew, MaxTime)] :
        rd[1] = t /\ \A i \in 1 .. (n - 1) : rd[i] <= rd[i + 1]}

\* ------------------------------------------------------------------------
\* Tokens a client can present at time t
\* ------------------------------------------------------------------------
\* every access token the manager j can have issued up to time t
IssuedAccess(j, t) ==
    {GenerateAccessToken(j, u, e, rd[1], rd[2], rd[3]) :
        u \in UUIDs, e \in Emails,
        rd \in {r \in UNION {Reads(3, t0) : t0 \in 0 .. t} : r[3] <= t}}

\* every refresh token the manager j can have issued up to time t
IssuedRefresh(j, t) ==
    {GenerateRefreshToken(j, u, rd[1], rd[2], rd[3]) :
        u \in UUIDs,
        rd \in {r \in UNION {Reads(3, t0) : t0 \in 0 .. t} : r[3] <= t}}

\* the tokens of the first user issued within one reading of the clock: the
\* tokens that the other issuers below copy and that get tampered with
PlainTokens(j, t) ==
    {GenerateAccessToken(j, 1, "a@b.com", t0, t0, t0) : t0 \in 0 .. t}
    \cup {GenerateRefreshToken(j, 1, t0, t0, t0) : t0 \in 0 .. t}

\* the same tokens issued by a JWTManager that was built with another secret
OtherSecretTokens(j, t) ==
    UNION {PlainTokens(NewJWTManager(s, j.accessTokenDuration,
                                     j.refreshTokenDuration), t) :
           s \in Secrets \ {j.secret}}

\* tokens signed with the deployment secret by another issuer
OtherIssuerTokens(j, t) ==
    {SignedString(b.alg, [b.claims EXCEPT !.iss = i], j.secret) :
        b \in PlainTokens(j, t), i \in Issuers \ {Issuer}}

\* tokens signed with the deployment secret whose claims the JWTManager
\* never writes: no expiry, a subject or user id that is not a canonical UUID
OddClaimTokens(j, t) ==
    {SignedString(b.alg, [b.claims EXCEPT !.exp = Null], j.secret) :
        b \in PlainTokens(j, t)}
    \cup UNION {{SignedString(b.alg, [b.claims EXCEPT !.sub = JunkStr],
                              j.secret),
                 SignedString(b.alg,
                              [b.claims EXCEPT !.sub = UUIDUrn(b.claims.sub.id)],
                              j.secret)} :
                b \in {c \in PlainTokens(j, t) : c.claims.sub # EmptyStr}}
    \cup {SignedString(b.alg, [b.claims EXCEPT !.user_id = JunkStr], j.secret) :
            b \in {c \in PlainTokens(j, t) : c.claims.user_id # EmptyStr}}

\* issued tokens changed after signing: a later expiry under the old
\* signature, or the algorithm "none" without a signature
TamperedTokens(j, t) ==
    {[b EXCEPT !.claims.exp = MaxTime + 1] : b \in PlainTokens(j, t)}
    \cup {[b EXCEPT !.alg = "none", !.sig = NoSig] : b \in PlainTokens(j, t)}

\* tokens that were not issued by the deployment as they are
ForgedTokens(j, t) ==
    OtherSecretTokens(j, t) \cup OtherIssuerTokens(j, t)
    \cup OddClaimTokens(j, t) \cup TamperedTokens(j, t)
    \cup {Garbage}

\* the tokens presented as bearer credential
BearerTokens(j, t) ==
    IssuedAccess(j, t) \cup PlainTokens(j, t) \cup ForgedTokens(j, t)

\* the tokens presented as refresh_token
RefreshTokens(j, t) ==
    IssuedRefresh(j, t) \cup PlainTokens(j, t) \cup ForgedTokens(j, t)

\* Authorization header values: absent, the expected form for every bearer
\* token, and the other spellings around the token issued now
Headers(j, t) ==
    {<<>>}
    \cup {<<W("Bearer"), SP, J(tok)>> : tok \in BearerTokens(j, t)}
    \cup LET tok == GenerateAccessToken(j, 1, "a@b.com", t, t, t)
         IN  {<<W("Bearer"), SP, SP, J(tok)>>,
              <<W("Bearer"), TAB, J(tok)>>,
              <<W("bearer"), SP, J(tok)>>,
              <<W("Basic"), SP, J(tok)>>,
              <<W("Bearer"), J(tok)>>,
              <<W("Bearer"), SP>>,
              <<J(tok)>>,
              <<W("Bearer"), SP, J(tok), SP, W("x")>>,
              <<W("Bearer"), SP, TAB, J(tok)>>,
              <<W("Bearer"), SP, J(tok), SP>>,
              <<W("Bearer"), SP, SP>>,
              <<SP, W("Bearer"), SP, J(tok)>>}

\* ------------------------------------------------------------------------
\* Initial state and actions
\* ------------------------------------------------------------------------
Init ==
    /\ now = 0
    /\ jwt \in {NewJWTManager("S1", c[1], c[2]) : c \in Durations}
    /\ users = {}
    /\ created = 0
    /\ resp = NoResp
    /\ consumed = Garbage
    /\ call = NoCall
    /\ boot = Serving(jwt)
    /\ tasks = {}
    /\ flight = NoFlight

\* the clock advances between two requests (while a handler runs, the
\* advance of the clock is in the handler's readings)
Tick ==
    /\ resp = NoResp
    /\ now < MaxTime
    /\ now' = now + 1
    /\ UNCHANGED <<jwt, users, created, resp, consumed, call, boot, tasks, flight>>

\* POST /v1/auth/register
RegisterRequest ==
    /\ resp = NoResp
    /\ \E json \in BOOLEAN, email \in Emails \cup {""},
          password \in NewPasswords \cup {NoText}, name \in Names \cup {""},
          db \in 0 .. 2, salt \in Salts, rd \in Reads(6, now) :
      \E strict \in Builds(password) :
        LET req == [NoReq EXCEPT !.json = json, !.email = email,
                       !.password = password, !.name = name, !.db = db]
            r == Register(jwt, users, created + 1, req, db, salt, strict, rd)
        IN  /\ json \/ (email = "" /\ password = NoText /\ name = "")
            /\ r.created => created < MaxUsers
            /\ users' = r.users
            /\ created' = IF r.created THEN created + 1 ELSE created
            /\ now' = r.end
            /\ resp' = [NoResp EXCEPT !.op = "register", !.req = req,
                           !.status = r.resp.status, !.body = r.resp.body,
                           !.at = rd[1]]
    /\ UNCHANGED <<jwt, consumed, call, boot, tasks, flight>>

\* POST /v1/auth/login
LoginRequest ==
    /\ resp = NoResp
    /\ \E json \in BOOLEAN, email \in Emails \cup {""},
          password \in Passwords \cup {NoText},
          db \in 0 .. 1, rd \in Reads(6, now) :
        LET req == [NoReq EXCEPT !.json = json, !.email = email,
                       !.password = password, !.db = db]
            r == Login(jwt, users, req, db, rd)
        IN  /\ json \/ (email = "" /\ password = NoText)
            /\ now' = r.end
            /\ resp' = [NoResp EXCEPT !.op = "login", !.req = req,
                           !.status = r.resp.status, !.body = r.resp.body,
                           !.at = rd[1]]
    /\ UNCHANGED <<jwt, users, created, consumed, call, boot, tasks, flight>>

\* POST /v1/auth/refresh with a refresh_token out of tokens and the clock
\* read as in reads; record = TRUE keeps the token of a successful Refresh
\* in consumed
RefreshStep(tokens, reads, record) ==
    /\ resp = NoResp
    /\ \E json \in BOOLEAN,
          token \in {<<>>} \cup {<<J(tok)>> : tok \in tokens},
          db \in 0 .. 1, rd \in reads :
        LET req == [NoReq EXCEPT !.json = json, !.token = token, !.db = db]
            r == Refresh(jwt, users, req, db, rd)
        IN  /\ json \/ token = <<>>
            /\ now' = r.end
            /\ resp' = [NoResp EXCEPT !.op = "refresh", !.req = req,
                           !.status = r.resp.status, !.body = r.resp.body,
                           !.at = rd[1],
                           !.replay = (record /\ consumed # Garbage
                                         /\ TokenOf(token) = consumed)]
            /\ consumed' = IF record /\ r.resp.status = 200
                           THEN TokenOf(token)
                           ELSE consumed
    /\ UNCHANGED <<jwt, users, created, call, boot, tasks, flight>>

RefreshRequest ==
    RefreshStep(RefreshTokens(jwt, now), Reads(8, now), FALSE)

\* POST /v1/auth/refresh, observed: a client that presents a refresh token
\* the deployment issued and, once a Refresh succeeded, that same token
\* again; the clock advances at most once while the handler runs
RefreshRecorded ==
    RefreshStep(IF consumed = Garbage THEN IssuedRefresh(jwt, now)
                                      ELSE {consumed},
                {rd \in Reads(8, now) : rd[2] = rd[8]}, TRUE)

\* any request to a /v1/tasks route
TaskRequest ==
    /\ resp = NoResp
    /\ \E hdr \in Headers(jwt, now), rd \in Reads(2, now) :
        LET req == [NoReq EXCEPT !.hdr = hdr]
            m == AuthMiddleware(jwt, hdr, rd[1])
            h == TaskHandlerEntry(m.ctx, rd[2])
        IN  /\ now' = IF m.next THEN rd[2] ELSE rd[1]
            /\ resp' = [NoResp EXCEPT !.op = "tasks", !.req = req,
                           !.status = IF m.next THEN h.status
                                                ELSE m.resp.status,
                           !.body = IF m.next THEN h.body ELSE m.resp.body,
                           !.next = m.next, !.ctx = m.ctx, !.at = rd[1]]
    /\ UNCHANGED <<jwt, users, created, consumed, call, boot, tasks, flight>>

\* the response has been written to the client
Deliver ==
    /\ resp # NoResp
    /\ resp' = NoResp
    /\ UNCHANGED <<now, jwt, users, created, consumed, call, boot, tasks, flight>>

\* a user row is removed from the table
DeleteUserRow ==
    /\ resp = NoResp
    /\ \E u \in users : users' = users \ {u}
    /\ UNCHANGED <<now, jwt, created, resp, consumed, call, boot, tasks, flight>>

Next ==
    \/ Tick
    \/ RegisterRequest
    \/ LoginRequest
    \/ RefreshRequest
    \/ TaskRequest
    \/ Deliver
    \/ DeleteUserRow

Spec == Init /\ [][Next]_vars

\* the protected routes alone: AuthMiddleware reads nothing but the
\* JWTManager and the clock
NextGate ==
    \/ Tick
    \/ TaskRequest
    \/ Deliver

SpecGate == Init /\ [][NextGate]_vars

\* the public routes under /v1/auth alone
NextAuth ==
    \/ Tick
    \/ RegisterRequest
    \/ LoginRequest
    \/ RefreshRequest
    \/ Deliver
    \/ DeleteUserRow

SpecAuth == Init /\ [][NextAuth]_vars

\* registration and refresh alone, with the consumed refresh token observed
NextReplay ==
    \/ Tick
    \/ RegisterRequest
    \/ RefreshRecorded
    \/ Deliver
    \/ DeleteUserRow

SpecReplay == Init /\ [][NextReplay]_vars

\* ------------------------------------------------------------------------
\* Properties
\* ------------------------------------------------------------------------
\* the header starts with the word Bearer followed by a space
HasBearerPrefix(hdr) ==
    Len(hdr) >= 2 /\ hdr[1] = W("Bearer") /\ hdr[2] = SP

\* the token was signed with this key and not changed since
SignedWith(tok, key) ==
    tok.wf /\ tok.alg = "HS256" /\ tok.sig = HMACSign(key, tok.alg, tok.claims)

\* the token is one that GenerateAccessToken of the deployment produces
IsIssuedAccess(tok) ==
    /\ tok.wf
    /\ tok.claims.user_id.enc = "canonical"
    /\ tok.claims.exp # Null
    /\ tok = GenerateAccessToken(jwt, tok.claims.user_id.id, tok.claims.email,
                                 tok.claims.exp - jwt.accessTokenDuration,
                                 tok.claims.iat, tok.claims.nbf)

\* the token is one that GenerateRefreshToken of the deployment produces
IsIssuedRefresh(tok) ==
    /\ tok.wf
    /\ tok.claims.sub.enc = "canonical"
    /\ tok.claims.exp # Null
    /\ tok = GenerateRefreshToken(jwt, tok.claims.sub.id,
                                  tok.claims.exp - jwt.refreshTokenDuration,
                                  tok.claims.iat, tok.claims.nbf)

\* the header is Bearer, one space, and a token of three segments
WellFormedHeader(hdr) ==
    Len(hdr) = 3 /\ HasBearerPrefix(hdr) /\ hdr[3].k = "jwt" /\ hdr[3].jwt.wf

\* C1: the task handler is invoked only for a request that carried an
\* Authorization header with the Bearer scheme whose extracted token
\* ValidateToken accepted; every other request to a tasks route ends with
\* status 401 and the handler not invoked.
C1_HandlerOnlyAfterValidation ==
    resp.op = "tasks" =>
        LET hdr == resp.req.hdr
            accepted ==
                /\ hdr # <<>>
                /\ HasBearerPrefix(hdr)
                /\ ValidateToken(jwt, TokenOf(bearerToken(hdr)), resp.at).err = ""
        IN  /\ resp.next => accepted
            /\ ~accepted => (~resp.next /\ resp.status = 401 /\ ~resp.ctx.set)

\* a tasks request with an access token of the deployment reached the
\* handler with the token's user id in its context
C1_Witness ==
    /\ resp.op = "tasks"
    /\ WellFormedHeader(resp.req.hdr)
    /\ IsIssuedAccess(resp.req.hdr[3].jwt)
    /\ resp.ctx.set
    /\ resp.ctx.user_id = resp.req.hdr[3].jwt.claims.user_id
    /\ resp.next
    /\ resp.status = 200

\* the four rejection cases of C2
HeaderMissing(hdr) == hdr = <<>>
HeaderNotBearer(hdr) == hdr # <<>> /\ ~HasBearerPrefix(hdr)
TokenExpired(hdr, t) ==
    /\ WellFormedHeader(hdr)
    /\ SignedWith(hdr[3].jwt, jwt.secret)
    /\ hdr[3].jwt.claims.exp # Null
    /\ hdr[3].jwt.claims.exp <= t
TokenWrongSignature(hdr) ==
    /\ WellFormedHeader(hdr)
    /\ hdr[3].jwt.alg = "HS256"
    /\ ~SignedWith(hdr[3].jwt, jwt.secret)

InFourCases(hdr, t) ==
    \/ HeaderMissing(hdr)
    \/ HeaderNotBearer(hdr)
    \/ TokenExpired(hdr, t)
    \/ TokenWrongSignature(hdr)

PresentedToken ==
    IF resp.op = "tasks" THEN TokenOf(bearerToken(resp.req.hdr))
    ELSE TokenOf(resp.req.token)

\* expires-at, issued-at and not-before of the token come from one reading
OneReading(tok, d) ==
    tok.claims.iat = tok.claims.exp - d /\ tok.claims.nbf = tok.claims.iat

SignedByOtherManager(tok) ==
    /\ tok.wf
    /\ tok.alg = "HS256"
    /\ tok.sig.key \in Secrets \ {jwt.secret}
    /\ tok.sig = HMACSign(tok.sig.key, tok.alg, tok.claims)

RefreshWithToken ==
    resp.op = "refresh" /\ resp.req.json /\ resp.req.token # <<>>

\* no token in the response
NoTokenIssued == resp.body.token = <<>> /\ resp.body.refresh_token = <<>>

\* C5: ValidateRefreshToken rejects every token whose issuer is not
\* "secure-task-api", also one signed with the deployment secret, unexpired
\* and with a subject, and Refresh answers it 401 without a token.
C5_WrongIssuerRejected ==
    (RefreshWithToken /\ PresentedToken.claims.iss # "secure-task-api") =>
        /\ \A t2 \in resp.at .. MaxTime :
              ValidateRefreshToken(jwt, PresentedToken, resp.at, t2).err # ""
        /\ resp.status = 401
        /\ NoTokenIssued

\* a correctly signed, unexpired token of another issuer for an existing
\* user was refused
C5_Witness ==
    /\ RefreshWithToken
    /\ SignedWith(PresentedToken, jwt.secret)
    /\ PresentedToken.claims.iss = "other-api"
    /\ resp.at < PresentedToken.claims.exp
    /\ PresentedToken.claims.nbf <= resp.at
    /\ \E u \in users : PresentedToken.claims.sub = UUIDString(u.ID)
    /\ resp.status = 401

\* C6: a Refresh request whose token has its expiry in the past is answered
\* 401 "Invalid or expired refresh token" and no token is returned.
C6_ExpiredRefreshRejected ==
    (RefreshWithToken /\ PresentedToken.claims.exp # Null
       /\ PresentedToken.claims.exp < resp.at) =>
        /\ resp.status = 401
        /\ resp.body.error = "Unauthorized"
        /\ resp.body.message = "Invalid or expired refresh token"
        /\ NoTokenIssued

\* a refresh token issued with TTL -1s for an existing user was refused
C6_Witness ==
    /\ RefreshWithToken
    /\ jwt.refreshTokenDuration = 0 - 1
    /\ IsIssuedRefresh(PresentedToken)
    /\ PresentedToken.claims.exp < resp.at
    /\ \E u \in users : PresentedToken.claims.sub = UUIDString(u.ID)
    /\ resp.status = 401
    /\ NoTokenIssued

\* a Login request with a non-empty email and password that the store answers
LoginWithCredentials ==
    /\ resp.op = "login"
    /\ resp.req.json
    /\ resp.req.email # ""
    /\ resp.req.password # NoText
    /\ resp.req.db = 0

UserAbsent(email) == \A u \in users : u.Email # email

PasswordMismatch(email, password) ==
    \E u \in users : u.Email = email /\ ~CheckPassword(password, u.PasswordHash)

\* C7: Login answers an unknown email and a wrong password with the same
\* response, status 401 and message "Invalid email or password", and issues
\* no token in either case.
C7_LoginFailureUniform ==
    (LoginWithCredentials
       /\ (UserAbsent(resp.req.email)
             \/ PasswordMismatch(resp.req.email, resp.req.password))) =>
        /\ resp.status = 401
        /\ resp.body = Unauthorized("Invalid email or password", resp.at).body
        /\ NoTokenIssued

\* a login with the wrong password of an existing user was refused
C7_Witness ==
    /\ LoginWithCredentials
    /\ PasswordMismatch(resp.req.email, resp.req.password)
    /\ resp.status = 401
    /\ resp.body.message = "Invalid email or password"

\* a Register request with all three fields that the store answers
RegisterWithFields(r) ==
    /\ r.op = "register"
    /\ r.req.json
    /\ r.req.email # ""
    /\ r.req.password # NoText
    /\ r.req.name # ""
    /\ r.req.db = 0

C8_RegisterStep ==
    (resp = NoResp /\ RegisterWithFields(resp')) =>
        IF UserAbsent(resp'.req.email)
        THEN /\ resp'.status = 201
             /\ resp'.body.token # <<>>
             /\ resp'.body.refresh_token # <<>>
             /\ \E u \in users' :
                   /\ u \notin users
                   /\ users' = users \cup {u}
                   /\ \A v \in users : v.ID # u.ID
                   /\ u.Email = resp'.req.email
                   /\ u.Name = resp'.req.name
                   /\ CheckPassword(resp'.req.password, u.PasswordHash)
                   /\ resp'.body.user.ID = u.ID
        ELSE /\ resp'.status = 400
             /\ resp'.body.message = "User with this email already exists"
             /\ users' = users
             /\ created' = created
             /\ resp'.body.token = <<>>
             /\ resp'.body.refresh_token = <<>>

\* C8: a Register with email, password and name for an email no user has
\* inserts the user and answers 201 with a non-empty access and refresh
\* token; a Register for an email a user has is answered 400 as a duplicate,
\* inserts no row and returns no token.
C8_RegisterOnce == [][C8_RegisterStep]_vars

\* a second Register with the email of an existing user was refused
C8_Witness ==
    /\ RegisterWithFields(resp)
    /\ resp.status = 400
    /\ resp.body.message = "User with this email already exists"
    /\ Cardinality({u \in users : u.Email = resp.req.email}) = 1
    /\ NoTokenIssued

\* C9: a Login with the password of a registered user is answered 200 with
\* an access token that ValidateToken accepts at once, with the email and
\* the id of that user in its claims.
C9_LoginTokenValidates ==
    (LoginWithCredentials
       /\ \E u \in users : /\ u.Email = resp.req.email
                           /\ CheckPassword(resp.req.password, u.PasswordHash)) =>
        LET user == CHOOSE u \in users : u.Email = resp.req.email
            v == ValidateToken(jwt, TokenOf(resp.body.token), now)
        IN  /\ resp.status = 200
            /\ v.err = ""
            /\ v.claims.email = user.Email
            /\ v.claims.user_id = UUIDString(user.ID)

\* a login succeeded while the clock advanced during the handler
C9_Witness ==
    /\ LoginWithCredentials
    /\ resp.status = 200
    /\ resp.body.token # <<>>
    /\ now > resp.at

BadRefreshToken(tok, t) ==
    \/ ~SignedWith(tok, jwt.secret)
    \/ tok.claims.exp = Null
    \/ tok.claims.exp <= t
    \/ tok.claims.nbf > t
    \/ tok.claims.iss # "secure-task-api"
    \/ tok.claims.sub = EmptyStr

RefreshFailures ==
    {<<401, "Invalid or expired refresh token">>,
     <<401, "Invalid token">>,
     <<401, "User not found">>,
     <<500, "Failed to refresh token">>}

ReplayBeforeExpiry ==
    /\ resp.op = "refresh"
    /\ resp.replay
    /\ resp.req.json
    /\ resp.req.db = 0
    /\ now < consumed.claims.exp

\* C11: after a successful Refresh the token it consumed is still accepted
\* by ValidateRefreshToken at every later time before the token's expiry,
\* and every Refresh that presents it again before its expiry, with its
\* user still in the store, returns status 200 with a token pair issued
\* during that request; the repeated Refresh leaves the token consumed as
\* it was.
C11_RefreshDoesNotRevoke ==
    /\ consumed # Garbage =>
          \A t \in now .. MaxTime :
              t < consumed.claims.exp =>
                  ValidateRefreshToken(jwt, consumed, t, t).err = ""
    /\ (ReplayBeforeExpiry
          /\ \E u \in users : u.ID = UUIDParse(consumed.claims.sub).id) =>
            /\ resp.status = 200
            /\ resp.body.token # <<>>
            /\ resp.body.refresh_token # <<>>
            /\ IsIssuedAccess(TokenOf(resp.body.token))
            /\ IsIssuedRefresh(TokenOf(resp.body.refresh_token))
            /\ TokenOf(resp.body.token).claims.iat \in resp.at .. now
            /\ TokenOf(resp.body.refresh_token).claims.iat \in resp.at .. now
            /\ TokenOf(resp.req.token) = consumed

\* the token of an earlier successful Refresh was presented again in a later
\* second and the Refresh returned a token pair once more
C11_Witness ==
    /\ ReplayBeforeExpiry
    /\ resp.at > consumed.claims.iat
    /\ resp.status = 200
    /\ TokenOf(resp.body.refresh_token) # consumed
    /\ TokenOf(resp.body.refresh_token).claims.sub = consumed.claims.sub

\* ------------------------------------------------------------------------
\* C12: the user store is the enforcement point of Refresh.
\* ------------------------------------------------------------------------
\* no row of the users table has the id the token's subject names
SubjectNotInStore(tok) ==
    \A u \in users : u.ID # UUIDParse(tok.claims.sub).id

\* C12: for a refresh token of the deployment that is unexpired and whose
\* subject names no row of the users table, ValidateRefreshToken succeeds
\* and returns the subject, and the Refresh request returns no token pair;
\* a Refresh returns a token pair only together with the user row that
\* GetByID found for the subject of the token.
C12_StoreDecidesRefresh ==
    LET tok == PresentedToken
    IN  /\ (RefreshWithToken /\ IsIssuedRefresh(tok)
              /\ resp.at < tok.claims.exp /\ SubjectNotInStore(tok)) =>
                /\ ValidateRefreshToken(jwt, tok, resp.at, resp.at) =
                       [err |-> "", cause |-> "",
                        sub |-> UUIDString(tok.claims.sub.id)]
                /\ resp.status # 200
                /\ NoTokenIssued
        /\ (resp.op = "refresh"
              /\ (resp.status = 200 \/ ~NoTokenIssued)) =>
                /\ ~SubjectNotInStore(tok)
                /\ ValidateRefreshToken(jwt, tok, resp.at, resp.at).err = ""
                /\ LET u == GetByID(users, UUIDParse(tok.claims.sub).id)
                   IN  /\ resp.body.user =
                              [ID |-> u.ID, Email |-> u.Email, Name |-> u.Name]
                       /\ TokenOf(resp.body.token).claims.user_id =
                              UUIDString(u.ID)
                       /\ TokenOf(resp.body.token).claims.email = u.Email

\* an unexpired refresh token of a user whose row was removed validated,
\* the store answered, and the Refresh returned no token
C12_Witness ==
    /\ RefreshWithToken
    /\ resp.req.db = 0
    /\ IsIssuedRefresh(PresentedToken)
    /\ PresentedToken.claims.sub.id \in 1 .. created
    /\ SubjectNotInStore(PresentedToken)
    /\ ValidateRefreshToken(jwt, PresentedToken, resp.at, now).err = ""
    /\ resp.status = 401
    /\ NoTokenIssued

\* ------------------------------------------------------------------------
\* Direct calls of the functions of the auth package
\* ------------------------------------------------------------------------
\* the value a named string result holds before it is assigned
NotCalled == [str |-> <<>>, err |-> FALSE]

\* GenerateTokenPair is called; fail = 1: the signing of the access token
\* returns an error, fail = 2: that of the refresh token does
GenerateTokenPairCall ==
    /\ call = NoCall
    /\ \E u \in UUIDs, e \in Emails, rd \in Reads(6, now), fail \in 0 .. 2 :
        LET access == IF fail = 1 THEN SigningError
                      ELSE Signed(GenerateAccessToken(jwt, u, e,
                                                      rd[1], rd[2], rd[3]))
            refresh == IF fail = 1 THEN NotCalled
                       ELSE IF fail = 2 THEN SigningError
                       ELSE Signed(GenerateRefreshToken(jwt, u,
                                                        rd[4], rd[5], rd[6]))
        IN  /\ call' = [fn |-> "GenerateTokenPair", userID |-> u, email |-> e,
                        fail |-> fail, access |-> access, refresh |-> refresh,
                        result |-> GenerateTokenPairOf(access, refresh)]
            /\ now' = IF fail = 1 THEN rd[3] ELSE rd[6]
    /\ UNCHANGED <<jwt, users, created, resp, consumed, boot, tasks, flight>>

\* GenerateAccessToken is called when the clock shows now; rd: its three
\* readings of the clock
GenerateAccessTokenCall ==
    /\ call.fn \in {"", "GenerateAccessToken"}
    /\ \E u \in UUIDs, e \in Emails, rd \in Reads(3, now) :
        /\ call' = [fn |-> "GenerateAccessToken", userID |-> u, email |-> e,
                    at |-> now,
                    result |-> Signed(GenerateAccessToken(jwt, u, e,
                                                          rd[1], rd[2], rd[3]))]
        /\ now' = rd[3]
    /\ UNCHANGED <<jwt, users, created, resp, consumed, boot, tasks, flight>>

\* the result of the call has been taken
Return ==
    /\ call # NoCall
    /\ call' = NoCall
    /\ UNCHANGED <<now, jwt, users, created, resp, consumed, boot, tasks, flight>>

\* Authorization headers of requests that run through AuthMiddleware twice:
\* none, and the access tokens of every user issued up to time t, garbage
\* and a refresh token, after Bearer and one or two spaces
CallHeaders(j, t) ==
    {<<>>}
    \cup UNION {{<<W("Bearer"), SP, J(tok)>>, <<W("Bearer"), SP, SP, J(tok)>>} :
                tok \in {GenerateAccessToken(j, u, "a@b.com", t0, t0, t0) :
                            u \in UUIDs, t0 \in 0 .. t}
                        \cup {Garbage, GenerateRefreshToken(j, 1, t, t, t)}}

\* the result of a middleware that was not reached
NotRun ==
    [next |-> FALSE, ctx |-> NoCtx,
     resp |-> [status |-> 0,
               body |-> Body(FALSE, "", "", Null, Null, NoUser, <<>>, <<>>)]]

\* AuthMiddleware is installed twice in front of a handler: the first run
\* hands the request to the second, the second to the handler; handled
\* counts the invocations of the handler
AuthMiddlewareCall ==
    /\ call.fn \in {"", "AuthMiddleware"}
    /\ \E hdr \in CallHeaders(jwt, now), rd \in Reads(2, now) :
        LET first == AuthMiddleware(jwt, hdr, rd[1])
            second == IF first.next THEN AuthMiddleware(jwt, hdr, rd[2])
                      ELSE NotRun
        IN  /\ call' = [fn |-> "AuthMiddleware", hdr |-> hdr, at |-> rd,
                        first |-> first, second |-> second,
                        handled |-> IF second.next THEN 1 ELSE 0]
            /\ now' = IF first.next THEN rd[2] ELSE rd[1]
    /\ UNCHANGED <<jwt, users, created, resp, consumed, boot, tasks, flight>>

NextCalls ==
    \/ Tick
    \/ GenerateTokenPairCall
    \/ GenerateAccessTokenCall
    \/ AuthMiddlewareCall
    \/ Return

SpecCalls == Init /\ [][NextCalls]_vars

\* ------------------------------------------------------------------------
\* C13: GenerateTokenPair fails atomically.
\* ------------------------------------------------------------------------
\* C13: GenerateTokenPair returns either the two non-empty tokens its two
\* calls produced and no error, or two empty strings and an error; it
\* returns an error exactly when one of the two signing steps failed, and
\* never a token together with an error.
C13_PairAtomic ==
    call.fn = "GenerateTokenPair" =>
        LET r == call.result
        IN  /\ \/ /\ ~r.err
                  /\ r.accessToken # <<>> /\ r.refreshToken # <<>>
                  /\ r.accessToken = call.access.str
                  /\ r.refreshToken = call.refresh.str
               \/ /\ r.err
                  /\ r.accessToken = <<>> /\ r.refreshToken = <<>>
            /\ r.err <=> call.fail # 0

\* the access token was signed, the signing of the refresh token failed, and
\* GenerateTokenPair returned the error with two empty strings
C13_Witness ==
    /\ call.fn = "GenerateTokenPair"
    /\ call.fail = 2
    /\ call.access.str # <<>>
    /\ call.result.err
    /\ call.result.accessToken = <<>>
    /\ call.result.refreshToken = <<>>

\* ------------------------------------------------------------------------
\* C14: the Authorization header values AuthMiddleware accepts.
\* ------------------------------------------------------------------------
\* the header is exactly the word Bearer, one space and one token string
ExactBearerHeader(hdr) ==
    Len(hdr) = 3 /\ hdr[1] = W("Bearer") /\ hdr[2] = SP /\ hdr[3].k = "jwt"

\* what follows the first two pieces of the header
AfterScheme(hdr) == SubSeq(hdr, 3, Len(hdr))

\* the header is the word Bearer, one space, and a remainder that is not
\* only white space
BearerThenToken(hdr) ==
    /\ Len(hdr) >= 3
    /\ hdr[1] = W("Bearer")
    /\ hdr[2] = SP
    /\ \E i \in 3 .. Len(hdr) : ~IsSpace(hdr[i])

\* C14 as stated: a request reaches the handler only with a header that is
\* exactly Bearer, one space and a token, and every other header is
\* rejected with 401 by the header checks, before the token validation.
C14_Original ==
    resp.op = "tasks" =>
        /\ resp.next => ExactBearerHeader(resp.req.hdr)
        /\ ~ExactBearerHeader(resp.req.hdr) =>
              /\ ~resp.next
              /\ resp.status = 401
              /\ resp.body.message \in {"authorization header missing",
                                        "invalid authorization header"}

\* C14: AuthMiddleware hands a token to ValidateToken only when the header
\* is the word Bearer, one space, and a remainder that is not empty once
\* the white space around it is trimmed; the trimmed remainder is the
\* token, so further white space after the first space and white space
\* after the token are tolerated.  Every other header value (other scheme or
\* letter case, no space, a tab instead of the space, white space before
\* the scheme, empty or blank remainder) is rejected with 401 before any
\* token validation.
C14_BearerHeaderForm ==
    resp.op = "tasks" =>
        LET hdr == resp.req.hdr
            v == ValidateToken(jwt, TokenOf(TrimSpace(AfterScheme(hdr))),
                               resp.at)
        IN  /\ resp.next => BearerThenToken(hdr)
            /\ BearerThenToken(hdr) =>
                  /\ resp.next <=> v.err = ""
                  /\ resp.next => resp.ctx.user_id = v.claims.user_id
                  /\ ~resp.next =>
                        (resp.status = 401 /\ resp.body.message =
                                                 "invalid or expired token")
            /\ ~BearerThenToken(hdr) =>
                  /\ ~resp.next
                  /\ resp.status = 401
                  /\ resp.body.message =
                        IF hdr = <<>> THEN "authorization header missing"
                        ELSE "invalid authorization header"

\* a header with two spaces between Bearer and the token was accepted
C14_Witness ==
    /\ resp.op = "tasks"
    /\ Len(resp.req.hdr) = 4
    /\ resp.req.hdr[1] = W("Bearer")
    /\ resp.req.hdr[2] = SP
    /\ resp.req.hdr[3] = SP
    /\ resp.req.hdr[4].k = "jwt"
    /\ resp.next
    /\ resp.status = 200

\* ------------------------------------------------------------------------
\* C15: the time claims of an access token.
\* ------------------------------------------------------------------------
\* the claims of the token the last call of GenerateAccessToken returned
IssuedClaims == call.result.str[1].jwt.claims

\* C15: every access token GenerateAccessToken produces has issued-at equal
\* to not-before, both equal to the time of the call, and expires-at equal
\* to issued-at plus accessTokenDuration; and two successive calls with the
\* same identity, email and clock value return the same token.
C15_TimeClaims ==
    /\ [](call.fn = "GenerateAccessToken" =>
            /\ IssuedClaims.iat = IssuedClaims.nbf
            /\ IssuedClaims.iat = call.at
            /\ IssuedClaims.exp = IssuedClaims.iat + jwt.accessTokenDuration)
    /\ [][(/\ call.fn = "GenerateAccessToken"
            /\ call'.fn = "GenerateAccessToken"
            /\ call'.userID = call.userID
            /\ call'.email = call.email
            /\ call'.at = call.at) => call'.result = call.result]_vars

\* ------------------------------------------------------------------------
\* C16: AuthMiddleware is idempotent and shares no state between requests.
\* ------------------------------------------------------------------------
\* C16: when AuthMiddleware authenticated a request, the context it attached
\* holds the user_id and email of that request's own token; a second run
\* on the same request while the token is still valid attaches the same
\* user_id and email and the handler is invoked once; and no run changes
\* the JWTManager or the user store.
C16_MiddlewareIdempotent ==
    /\ [](call.fn = "AuthMiddleware" /\ call.first.next =>
            LET tok == TokenOf(bearerToken(call.hdr))
                still == ValidateToken(jwt, tok, call.at[2]).err = ""
            IN  /\ call.first.ctx = [set |-> TRUE,
                                     user_id |-> tok.claims.user_id,
                                     email |-> tok.claims.email]
                /\ still => /\ call.second.next
                            /\ call.second.ctx = call.first.ctx
                            /\ call.handled = 1
                /\ ~still => /\ ~call.second.next
                             /\ call.second.resp.status = 401
                             /\ call.handled = 0)
    /\ [][call'.fn = "AuthMiddleware" =>
            (jwt' = jwt /\ users' = users /\ created' = created)]_vars

\* a request with a token of the second user passed both runs, the second
\* run a second after the first, with the same identity attached
C16_Witness ==
    /\ call.fn = "AuthMiddleware"
    /\ call.first.next
    /\ call.second.next
    /\ call.handled = 1
    /\ call.second.ctx = call.first.ctx
    /\ call.first.ctx.user_id = UUIDString(2)
    /\ call.at[2] > call.at[1]

\* ------------------------------------------------------------------------
\* Startup: main from its entry to the shutdown of the server
\* ------------------------------------------------------------------------
\* the values of the duration variables of the environment
DurationSettings ==
    {<<DurationUnset, DurationUnset>>, <<DurationJunk, DurationUnset>>}
    \cup {<<DurationText(c[1]), DurationText(c[2])>> : c \in Durations}

\* the environments a process is started with
Envs ==
    {[JWT_SECRET |-> s, JWT_ACCESS_DURATION |-> d[1],
      JWT_REFRESH_DURATION |-> d[2], DATABASE_URL |-> url, DB_HOST |-> h,
      DB_USER |-> u] :
        s \in {"", "S1"}, d \in DurationSettings,
        url \in {"", "postgres://db"}, h \in {"", "db"}, u \in {"", "u"}}

InitMain ==
    /\ now = 0
    /\ jwt = NilJWTManager
    /\ users = {}
    /\ created = 0
    /\ resp = NoResp
    /\ consumed = Garbage
    /\ call = NoCall
    /\ boot \in {Started(env) : env \in Envs}
    /\ tasks = {}
    /\ flight = NoFlight

\* os.Exit(1) after a failed step of main (log.Fatal exits with 1 too)
Exit1(err) == [boot EXCEPT !.pc = "exit", !.exit = 1, !.err = err]

\* cfg, err := config.LoadConfig()
MainLoadConfig ==
    /\ boot.pc = "LoadConfig"
    /\ LET r == LoadConfig(boot.env)
       IN  boot' = IF r.err # "" THEN Exit1(r.err)
                   ELSE [boot EXCEPT !.pc = "NewLogger", !.cfg = r.cfg]
    /\ UNCHANGED <<now, jwt, users, created, resp, consumed, call, tasks, flight>>

\* log, err := logger.NewLogger(cfg.Logging): the build of the zap logger
\* succeeds or fails
MainNewLogger ==
    /\ boot.pc = "NewLogger"
    /\ \E ok \in BOOLEAN :
          boot' = IF ok THEN [boot EXCEPT !.pc = "initDatabase"]
                  ELSE Exit1("Failed to initialize logger")
    /\ UNCHANGED <<now, jwt, users, created, resp, consumed, call, tasks, flight>>

\* db, err := initDatabase(cfg.Database): the database answers in one of
\* the attempts or in none
MainInitDatabase ==
    /\ boot.pc = "initDatabase"
    /\ \E ok \in BOOLEAN :
          boot' = IF ok THEN [boot EXCEPT !.pc = "NewJWTManager"]
                  ELSE Exit1("Failed to connect to database")
    /\ UNCHANGED <<now, jwt, users, created, resp, consumed, call, tasks, flight>>

\* jwtManager := auth.NewJWTManager(cfg.JWT.Secret, ...)
MainNewJWTManager ==
    /\ boot.pc = "NewJWTManager"
    /\ jwt' = NewJWTManager(boot.cfg.JWT.Secret,
                            boot.cfg.JWT.AccessTokenDuration,
                            boot.cfg.JWT.RefreshTokenDuration)
    /\ boot' = [boot EXCEPT !.pc = "ListenAndServe", !.built = TRUE]
    /\ UNCHANGED <<now, users, created, resp, consumed, call, tasks, flight>>

\* go func() { server.ListenAndServe() }(): the server listens while main
\* waits for the signal, or the listener cannot be opened
MainListenAndServe ==
    /\ boot.pc = "ListenAndServe"
    /\ \E ok \in BOOLEAN :
          boot' = IF ok THEN [boot EXCEPT !.pc = "quit", !.listening = TRUE]
                  ELSE Exit1("Server failed to start")
    /\ UNCHANGED <<now, jwt, users, created, resp, consumed, call, tasks, flight>>

\* the listening server answers requests
MainServe ==
    /\ boot.listening
    /\ (Tick \/ TaskRequest \/ Deliver)

\* <-quit, server.Shutdown: the requests in flight are answered first
MainShutdown ==
    /\ boot.pc = "quit"
    /\ resp = NoResp
    /\ boot' = [boot EXCEPT !.pc = "exit", !.exit = 0, !.listening = FALSE]
    /\ UNCHANGED <<now, jwt, users, created, resp, consumed, call, tasks, flight>>

NextMain ==
    \/ MainLoadConfig
    \/ MainNewLogger
    \/ MainInitDatabase
    \/ MainNewJWTManager
    \/ MainListenAndServe
    \/ MainServe
    \/ MainShutdown

SpecMain == InitMain /\ [][NextMain]_vars

\* ------------------------------------------------------------------------
\* C17
\* ------------------------------------------------------------------------
\* C17: the server never serves a request with an empty signing secret. When
\* JWT_SECRET is empty or unset, main does not get past LoadConfig: it is
\* at LoadConfig or has exited with status 1 and the error of LoadConfig,
\* no JWTManager was built, the server does not listen and no request was
\* answered. Every JWTManager that was built and every request that is
\* answered has a non-empty secret.
C17_NoEmptySecret ==
    /\ boot.env.JWT_SECRET = "" =>
          /\ boot.pc \in {"LoadConfig", "exit"}
          /\ boot.pc = "exit" => boot.exit = 1 /\ boot.err # ""
          /\ ~boot.built
          /\ jwt = NilJWTManager
          /\ ~boot.listening
          /\ resp = NoResp
    /\ boot.built => jwt.secret # ""
    /\ resp # NoResp => boot.built /\ jwt.secret # ""

\* main has exited because JWT_SECRET is empty, the database settings being
\* complete
C17_Witness ==
    /\ boot.env.JWT_SECRET = ""
    /\ boot.pc = "exit"
    /\ boot.exit = 1
    /\ boot.err = "JWT_SECRET is required"

\* ------------------------------------------------------------------------
\* Direct calls of the functions that issue and validate refresh tokens
\* ------------------------------------------------------------------------
HMACFamily == {"HS256", "HS384", "HS512"}

\* tokens signed with the secret of j: the tokens j issues, the same with
\* another HMAC algorithm, with another issuer and with odd claims
SecretSigned(j, t) ==
    PlainTokens(j, t) \cup OtherIssuerTokens(j, t) \cup OddClaimTokens(j, t)
    \cup {SignedString("HS384", b.claims, j.secret) : b \in PlainTokens(j, t)}

\* the token strings handed to ValidateRefreshToken at time t: the tokens
\* above, and each of them signed with another secret, with the algorithm
\* none and no signature, with an RSA algorithm, and with a later expiry
\* under its old signature; and a string that is no token
ValidateInputs(j, t) ==
    {Garbage}
    \cup SecretSigned(j, t)
    \cup UNION {{SignedString(b.alg, b.claims, "S2"),
                 [b EXCEPT !.alg = "none", !.sig = NoSig],
                 [b EXCEPT !.alg = "RS256",
                           !.sig = HMACSign("rsa", "RS256", b.claims)],
                 [b EXCEPT !.claims.exp = MaxTime + 1]} :
                b \in SecretSigned(j, t)}

\* ValidateRefreshToken is called; rd: the reading of the clock by the
\* library and the reading of line 123
ValidateRefreshTokenCall ==
    /\ call = NoCall
    /\ \E tok \in ValidateInputs(jwt, now), rd \in Reads(2, now) :
        /\ call' = [fn |-> "ValidateRefreshToken", tok |-> tok, at |-> rd,
                    result |-> ValidateRefreshToken(jwt, tok, rd[1], rd[2])]
        /\ now' = rd[2]
    /\ UNCHANGED <<jwt, users, created, resp, consumed, boot, tasks, flight>>

NextTokens ==
    \/ Tick
    \/ ValidateRefreshTokenCall
    \/ Return

SpecTokens == Init /\ [][NextTokens]_vars

\* ------------------------------------------------------------------------
\* C18
\* ------------------------------------------------------------------------
\* the signature of the token verifies under the secret of the deployment
\* with an algorithm of the HMAC family
Verified(tok) ==
    /\ tok.wf
    /\ tok.alg \in HMACFamily
    /\ tok.sig = HMACSign(jwt.secret, tok.alg, tok.claims)

\* the call was rejected by a check of the content of the claims: by the
\* issuer, expiry or subject check of ValidateRefreshToken or by the time
\* validation of the library
RejectedByClaims ==
    \/ call.result.err \in {"invalid token issuer",
                            "refresh token has expired",
                            "token missing subject"}
    \/ call.result.cause \in {"expired", "not valid yet"}

\* C18: in ValidateRefreshToken a check of the content of the claims decides
\* only on a token whose algorithm is in the HMAC family and whose signature
\* verified under the secret. A token with three segments and another
\* algorithm is rejected as unverifiable and one with a bad signature as
\* signature invalid, whatever its issuer, expiry and subject are; no
\* subject is returned.
C18_SignatureBeforeClaims ==
    call.fn = "ValidateRefreshToken" =>
        /\ RejectedByClaims => Verified(call.tok)
        /\ call.result.err = "" => Verified(call.tok)
        /\ call.tok.wf /\ ~Verified(call.tok) =>
              /\ call.result.err = "failed to parse refresh token"
              /\ call.result.sub = EmptyStr
              /\ call.result.cause =
                    IF call.tok.alg \in HMACFamily THEN "signature invalid"
                    ELSE "unverifiable"

\* a token signed with another secret whose issuer is not the deployment's
\* and whose expiry has passed was rejected for its signature
C18_Witness ==
    /\ call.fn = "ValidateRefreshToken"
    /\ call.tok.wf
    /\ call.tok.alg \in HMACFamily
    /\ ~Verified(call.tok)
    /\ call.tok.claims.iss # Issuer
    /\ call.tok.claims.exp # Null
    /\ call.tok.claims.exp < call.at[1]
    /\ call.result.cause = "signature invalid"

\* ------------------------------------------------------------------------
\* Refresh tokens and access tokens, issued, validated and presented
\* ------------------------------------------------------------------------
\* GenerateRefreshToken is called; rd: its three readings of the clock
GenerateRefreshTokenCall ==
    /\ call = NoCall
    /\ \E u \in UUIDs, rd \in Reads(3, now) :
        /\ call' = [fn |-> "GenerateRefreshToken", userID |-> u, at |-> rd,
                    result |-> Signed(GenerateRefreshToken(jwt, u,
                                                           rd[1], rd[2], rd[3]))]
        /\ now' = rd[3]
    /\ UNCHANGED <<jwt, users, created, resp, consumed, boot, tasks, flight>>

\* the tokens the deployment has issued up to time t, of both kinds, and
\* tokens signed with its secret that have an empty subject and no user id
IssuedOrBare(j, t) ==
    IssuedAccess(j, t) \cup IssuedRefresh(j, t)
    \cup {SignedString("HS256", [b.claims EXCEPT !.sub = EmptyStr], j.secret) :
            b \in PlainTokens(j, t)}

\* ValidateRefreshToken is called with one of these tokens
ValidateIssuedCall ==
    /\ call = NoCall
    /\ \E tok \in IssuedOrBare(jwt, now), rd \in Reads(2, now) :
        /\ call' = [fn |-> "ValidateRefreshToken", tok |-> tok, at |-> rd,
                    result |-> ValidateRefreshToken(jwt, tok, rd[1], rd[2])]
        /\ now' = rd[2]
    /\ UNCHANGED <<jwt, users, created, resp, consumed, boot, tasks, flight>>

\* POST /v1/auth/refresh with one of these tokens
RefreshIssued ==
    RefreshStep(IssuedOrBare(jwt, now), Reads(8, now), FALSE)

\* the requests of the clients, between two direct calls
OriginRequests ==
    /\ call = NoCall
    /\ (Tick \/ RegisterRequest \/ RefreshIssued \/ Deliver)

\* the direct calls, between two requests
OriginCalls ==
    /\ resp = NoResp
    /\ (GenerateRefreshTokenCall \/ ValidateIssuedCall \/ Return)

NextOrigin ==
    \/ OriginRequests
    \/ OriginCalls

SpecOrigin == Init /\ [][NextOrigin]_vars

\* ------------------------------------------------------------------------
\* C19
\* ------------------------------------------------------------------------
\* the refresh token that the refresh request presents
PresentedRefresh == TokenOf(resp.req.token)

\* C19: every token returned by GenerateRefreshToken has the canonical text
\* of the user's id as subject and neither email nor user_id;
\* ValidateRefreshToken returns an error for every token whose subject is
\* empty, so for every token that GenerateAccessToken produces; and a
\* Refresh request that presents a token produced by GenerateAccessToken or
\* any token with an empty subject is answered 401 without tokens.
C19_RefreshSubject ==
    /\ call.fn = "GenerateRefreshToken" =>
          /\ ~call.result.err
          /\ TokenOf(call.result.str).claims.sub = UUIDString(call.userID)
          /\ TokenOf(call.result.str).claims.email = ""
          /\ TokenOf(call.result.str).claims.user_id = EmptyStr
    /\ call.fn = "ValidateRefreshToken" =>
          /\ call.tok.claims.sub = EmptyStr => call.result.err # ""
          /\ IsIssuedAccess(call.tok) =>
                call.result.err # "" /\ call.result.sub = EmptyStr
    /\ resp.op = "refresh" /\ resp.req.json /\ resp.req.token # <<>>
         /\ (IsIssuedAccess(PresentedRefresh)
               \/ PresentedRefresh.claims.sub = EmptyStr) =>
          /\ resp.status = 401
          /\ NoTokenIssued

\* an access token of a registered user that has not expired was presented
\* to Refresh while the store answers
C19_Witness ==
    /\ resp.op = "refresh"
    /\ resp.req.json
    /\ resp.req.db = 0
    /\ IsIssuedAccess(PresentedRefresh)
    /\ resp.at < PresentedRefresh.claims.exp
    /\ \E u \in users : UUIDString(u.ID) = PresentedRefresh.claims.user_id
    /\ resp.status = 401

\* ------------------------------------------------------------------------
\* Direct calls of HashPassword and CheckPassword
\* ------------------------------------------------------------------------
\* n bytes b
Filled(n, b) == [i \in 1 .. n |-> b]

\* the plaintexts that are hashed and checked: the empty one, the passwords
\* of the accounts, a byte alone and followed by a zero byte and itself,
\* and plaintexts of 71, 72 and 73 bytes that differ in their last byte
Plaintexts ==
    {NoText, <<1>>, <<1, 0, 1>>} \cup Passwords
    \cup {Append(Filled(n, 1), b) :
            n \in (BcryptKeyLen - 2) .. BcryptKeyLen, b \in 1 .. 2}

\* hashed, err := HashPassword(password)
HashPasswordCall ==
    /\ call = NoCall
    /\ \E password \in Plaintexts, salt \in Salts :
      \E strict \in Builds(password) :
        call' = [fn |-> "HashPassword", password |-> password,
                 result |-> HashPassword(password, salt, strict)]
    /\ UNCHANGED <<now, jwt, users, created, resp, consumed, boot, tasks, flight>>

\* CheckPassword(password, hashed) with the string that the HashPassword
\* before it returned for the plaintext hashedOf
CheckPasswordCall ==
    /\ call.fn = "HashPassword"
    /\ \E password \in Plaintexts :
        call' = [fn |-> "CheckPassword", password |-> password,
                 hashedOf |-> call.password, hashed |-> call.result,
                 match |-> CheckPassword(password, call.result.hashed)]
    /\ UNCHANGED <<now, jwt, users, created, resp, consumed, boot, tasks, flight>>

NextPasswords ==
    \/ HashPasswordCall
    \/ CheckPasswordCall
    \/ Return

SpecPasswords == Init /\ [][NextPasswords]_vars

\* ------------------------------------------------------------------------
\* C20
\* ------------------------------------------------------------------------
\* C20: for all plaintexts p, CheckPassword(p, HashPassword(p)) succeeds,
\* and for all plaintexts p1 # p2, CheckPassword(p1, HashPassword(p2))
\* fails.
C20_HashRoundTrip ==
    call.fn = "CheckPassword" =>
        /\ call.password = call.hashedOf => call.match
        /\ call.password # call.hashedOf => ~call.match

\* ------------------------------------------------------------------------
\* C21
\* ------------------------------------------------------------------------
\* the fields of a response body and of the user in it
BodyFields ==
    {"success", "error", "message", "timestamp", "status_code", "user",
     "token", "refresh_token"}

UserFields == {"ID", "Email", "Name"}

\* the fields of the claims of a token of the response
ClaimFields == {"user_id", "email", "sub", "iss", "exp", "iat", "nbf"}

\* the token strings of the response carry claims without a password
TokensWithoutPassword ==
    \A str \in {resp.body.token, resp.body.refresh_token} :
        str # <<>> => DOMAIN TokenOf(str).claims = ClaimFields

\* C21: every row of the users table holds the bcrypt hash of a password
\* (salt and digest of the key bcrypt derives), and the row that a Register
\* answered 201 wrote holds the hash of the password of the request, not the
\* password; every response of Register, Login and Refresh consists of the
\* fields of the response body, its user has the fields id, email and name
\* only, and its tokens carry neither password nor hash.
C21_PasswordStaysInside ==
    /\ \A u \in users :
          /\ DOMAIN u.PasswordHash = {"salt", "digest"}
          /\ \E p \in NewPasswords :
                u.PasswordHash = HashPassword(p, u.PasswordHash.salt, FALSE).hashed
    /\ resp.op = "register" /\ resp.status = 201 =>
          \E u \in users :
              /\ u.Email = resp.req.email
              /\ u.PasswordHash.digest =
                     BcryptDigest(u.PasswordHash.salt, resp.req.password)
              /\ u.PasswordHash.digest[2] # resp.req.password
    /\ resp.op \in {"register", "login", "refresh"} =>
          /\ DOMAIN resp.body = BodyFields
          /\ DOMAIN resp.body.user = UserFields
          /\ TokensWithoutPassword

\* a Login with the right password was answered 200 with the user, whose
\* row holds the hash
C21_Witness ==
    /\ resp.op = "login"
    /\ resp.status = 200
    /\ \E u \in users :
          /\ u.ID = resp.body.user.ID
          /\ CheckPassword(resp.req.password, u.PasswordHash)

\* ------------------------------------------------------------------------
\* The type int of the pagination: 64 bits in two's complement, held as four
\* digits of 16 bits, the lowest first
\* ------------------------------------------------------------------------
Base == 65536
IntDigits == 4

\* the int with the value n, for -Base < n < Base
IntOf(n) ==
    IF n >= 0 THEN <<n>> \o [k \in 1 .. IntDigits - 1 |-> 0]
    ELSE <<Base + n>> \o [k \in 1 .. IntDigits - 1 |-> Base - 1]

\* math.MaxInt64, the largest text strconv.Atoi turns into an int
MaxInt == [k \in 1 .. IntDigits |-> IF k = IntDigits THEN Base \div 2 - 1
                                     ELSE Base - 1]

Negative(x) == x[IntDigits] >= Base \div 2

\* the value of x, for 0 <= x < Base
Small(x) == x[1]

IsSmall(x) == \A k \in 2 .. IntDigits : x[k] = 0

\* x < n and x > n for 0 <= n < Base
Less(x, n) == Negative(x) \/ (IsSmall(x) /\ x[1] < n)
Greater(x, n) == ~Negative(x) /\ ~(IsSmall(x) /\ x[1] <= n)

\* the digits of x + y + carry and of x * m + carry; the carry out of the
\* highest digit is lost
RECURSIVE AddDigits(_, _, _)
AddDigits(x, y, carry) ==
    IF x = <<>> THEN <<>>
    ELSE LET d == Head(x) + Head(y) + carry
         IN  <<d % Base>> \o AddDigits(Tail(x), Tail(y), d \div Base)

RECURSIVE MulDigits(_, _, _)
MulDigits(x, m, carry) ==
    IF x = <<>> THEN <<>>
    ELSE LET d == Head(x) * m + carry
         IN  <<d % Base>> \o MulDigits(Tail(x), m, d \div Base)

\* x + y and, for 0 <= m < Base, x * m in the arithmetic of int
Add(x, y) == AddDigits(x, y, 0)
Mul(x, m) == MulDigits(x, m, 0)

\* ------------------------------------------------------------------------
\* Task repository.  A row of the tasks table; the ids follow the order of
\* insertion, so ORDER BY created_at DESC is the descending order of the ids
\* ------------------------------------------------------------------------
NoDate == Null

\* the nil *models.Task
NoTask ==
    [ID |-> 0, Title |-> "", Description |-> "", Status |-> "",
     DueDate |-> NoDate, UserID |-> 0, Deleted |-> FALSE]

\* TaskStatus.IsValid
IsValid(status) == status \in {"pending", "in_progress", "completed"}

\* INSERT INTO tasks under a fresh id (uuid.New())
TaskCreate(ts, id, task) == ts \cup {[task EXCEPT !.ID = id]}

\* the rows that WHERE id = $1 AND deleted_at IS NULL selects, whoever owns
\* them
TaskRowsAnyOwner(ts, id, userID) ==
    {t \in ts : t.ID = id /\ ~t.Deleted}

\* the rows that WHERE id = $1 AND user_id = $2 selects, deleted or not
TaskRowsWithDeleted(ts, id, userID) ==
    {t \in ts : t.ID = id /\ t.UserID = userID}

\* the rows that WHERE id = $1 AND user_id = $2 AND deleted_at IS NULL selects
TaskRows(ts, id, userID) ==
    {t \in ts : t.ID = id /\ t.UserID = userID /\ ~t.Deleted}

\* TaskRepository.GetByID: the row, or NoTask for sql.ErrNoRows
TaskGetByID(ts, id, userID) ==
    IF TaskRows(ts, id, userID) # {}
    THEN CHOOSE t \in TaskRows(ts, id, userID) : TRUE
    ELSE NoTask

\* the rows of S in the descending order of their ids
RECURSIVE NewestFirst(_)
NewestFirst(S) ==
    IF S = {} THEN <<>>
    ELSE LET t == CHOOSE x \in S : \A y \in S : y.ID <= x.ID
         IN  <<t>> \o NewestFirst(S \ {t})

\* offset := (page - 1) * limit, for 1 <= limit <= 100
Offset(page, limit) == Mul(Add(page, IntOf(0 - 1)), Small(limit))

\* LIMIT $2 OFFSET $3 of a sequence of rows, for an offset that is not
\* negative
LimitOffset(rows, limit, offset) ==
    IF ~IsSmall(offset) \/ Small(offset) >= Len(rows) THEN <<>>
    ELSE SubSeq(rows, Small(offset) + 1,
                Min(Small(offset) + Small(limit), Len(rows)))

\* TaskRepository.GetAll: the page of the user's rows and their number;
\* PostgreSQL refuses a negative OFFSET
TaskGetAll(ts, userID, page, limit) ==
    LET own == {t \in ts : t.UserID = userID /\ ~t.Deleted}
        offset == Offset(page, limit)
    IN  IF Negative(offset)
        THEN [tasks |-> <<>>, total |-> 0, offset |-> offset, err |-> TRUE]
        ELSE [tasks |-> LimitOffset(NewestFirst(own), limit, offset),
              total |-> Cardinality(own), offset |-> offset, err |-> FALSE]

\* TaskRepository.Update: the four fields of the selected row are replaced;
\* without a row Scan returns sql.ErrNoRows
TaskUpdate(ts, task) ==
    LET sel == TaskRows(ts, task.ID, task.UserID)
    IN  [rows |-> (ts \ sel)
                  \cup {[t EXCEPT !.Title = task.Title,
                                  !.Description = task.Description,
                                  !.Status = task.Status,
                                  !.DueDate = task.DueDate] : t \in sel},
         err |-> sel = {}]

\* TaskRepository.Delete: deleted_at is set on the selected row; no row
\* affected is the error "task not found"
TaskDelete(ts, id, userID) ==
    LET sel == TaskRows(ts, id, userID)
    IN  [rows |-> (ts \ sel) \cup {[t EXCEPT !.Deleted = TRUE] : t \in sel},
         err |-> sel = {}]

\* ------------------------------------------------------------------------
\* Query parameters: absent or empty, a text strconv.Atoi refuses, or the
\* text of the integer n
\* ------------------------------------------------------------------------
QueryAbsent == [n |-> IntOf(0), kind |-> "absent"]
QueryJunk == [n |-> IntOf(0), kind |-> "junk"]
QueryInt(n) == [n |-> n, kind |-> "int"]

GetQueryParamInt(value, defaultValue) ==
    IF value.kind = "absent" THEN defaultValue
    ELSE IF value.kind = "junk" THEN defaultValue
    ELSE value.n

GetPaginationParams(query) ==
    LET page == GetQueryParamInt(query.page, IntOf(1))
        limit == GetQueryParamInt(query.limit, IntOf(10))
    IN  [page |-> IF Less(page, 1) THEN IntOf(1) ELSE page,
         limit |-> IF Less(limit, 1) THEN IntOf(10)
                   ELSE IF Greater(limit, 100) THEN IntOf(100)
                   ELSE limit]

\* ------------------------------------------------------------------------
\* Task handlers.  ctx: the context AuthMiddleware attached; id: the text of
\* the {id} of the path; req: the decoded body; db: 0 when the database
\* answers every call, n when its n-th call of the handler fails
\* ------------------------------------------------------------------------
NoPagination ==
    [page |-> IntOf(0), limit |-> IntOf(0), total |-> 0, total_pages |-> 0]

NoTaskReq ==
    [user_id |-> 0, status |-> "", json |-> TRUE, title |-> "",
     description |-> "", due_date |-> NoDate]

TaskResult(status, message, task, list, pagination, ts) ==
    [status |-> status, message |-> message, task |-> task, tasks |-> list,
     pagination |-> pagination, rows |-> ts, offset |-> IntOf(0)]

TaskError(e, ts) ==
    TaskResult(e.status, e.body.message, NoTask, <<>>, NoPagination, ts)

ListTasks(ts, ctx, query, db) ==
    LET entry == TaskHandlerEntry(ctx, Null)
        userID == UUIDParse(ctx.user_id).id
        p == GetPaginationParams(query)
        all == TaskGetAll(ts, userID, p.page, p.limit)
    IN  IF entry.status # 200 THEN TaskError(entry, ts)
        ELSE IF db = 1
        THEN TaskError(InternalServerError("Failed to get tasks", Null), ts)
        ELSE IF all.err
        THEN [TaskError(InternalServerError("Failed to get tasks", Null), ts)
                 EXCEPT !.offset = all.offset]
        ELSE [TaskResult(200, "", NoTask, all.tasks,
                         [page |-> p.page, limit |-> p.limit,
                          total |-> all.total,
                          total_pages |-> (all.total + Small(p.limit) - 1)
                                          \div Small(p.limit)],
                         ts)
                 EXCEPT !.offset = all.offset]

CreateTask(ts, ctx, req, db, id) ==
    LET entry == TaskHandlerEntry(ctx, Null)
        userID == UUIDParse(ctx.user_id).id
        task == [NoTask EXCEPT !.Title = req.title,
                               !.Description = req.description,
                               !.Status = "pending",
                               !.DueDate = req.due_date,
                               !.UserID = userID]
    IN  IF entry.status # 200 THEN TaskError(entry, ts)
        ELSE IF ~req.json
        THEN TaskError(BadRequest("Invalid request body", Null), ts)
        ELSE IF req.title = ""
        THEN TaskError(BadRequest("Title is required", Null), ts)
        ELSE IF db = 1
        THEN TaskError(InternalServerError("Failed to create task", Null), ts)
        ELSE TaskResult(201, "", [task EXCEPT !.ID = id], <<>>, NoPagination,
                        TaskCreate(ts, id, task))

GetTask(ts, ctx, id, db) ==
    LET entry == TaskHandlerEntry(ctx, Null)
        userID == UUIDParse(ctx.user_id).id
        taskID == UUIDParse(id)
        task == TaskGetByID(ts, taskID.id, userID)
    IN  IF entry.status # 200 THEN TaskError(entry, ts)
        ELSE IF taskID.err
        THEN TaskError(BadRequest("Invalid task ID", Null), ts)
        ELSE IF db = 1
        THEN TaskError(InternalServerError("Failed to get task", Null), ts)
        ELSE IF task = NoTask
        THEN TaskError(JSONError(404, "Task not found", Null), ts)
        ELSE TaskResult(200, "", task, <<>>, NoPagination, ts)

\* the field updates of UpdateTask with a status that is only tested for
\* being set
ApplyUpdateAnyStatus(task, req) ==
    [task EXCEPT
        !.Title = IF req.title # "" THEN req.title ELSE @,
        !.Description = IF req.description # "" THEN req.description ELSE @,
        !.Status = IF req.status # "" THEN req.status ELSE @,
        !.DueDate = IF req.due_date # NoDate THEN req.due_date ELSE @]

\* lines 193-204 of UpdateTask: the fields of the request that are set
\* replace those of the task that was read
ApplyUpdate(task, req) ==
    [task EXCEPT
        !.Title = IF req.title # "" THEN req.title ELSE @,
        !.Description = IF req.description # "" THEN req.description ELSE @,
        !.Status = IF IsValid(req.status) THEN req.status ELSE @,
        !.DueDate = IF req.due_date # NoDate THEN req.due_date ELSE @]

UpdateTask(ts, ctx, id, req, db) ==
    LET entry == TaskHandlerEntry(ctx, Null)
        userID == UUIDParse(ctx.user_id).id
        taskID == UUIDParse(id)
        found == TaskGetByID(ts, taskID.id, userID)
        task == ApplyUpdate(found, req)
        upd == TaskUpdate(ts, task)
    IN  IF entry.status # 200 THEN TaskError(entry, ts)
        ELSE IF taskID.err
        THEN TaskError(BadRequest("Invalid task ID", Null), ts)
        ELSE IF ~req.json
        THEN TaskError(BadRequest("Invalid request body", Null), ts)
        ELSE IF db = 1
        THEN TaskError(InternalServerError("Failed to update task", Null), ts)
        ELSE IF found = NoTask
        THEN TaskError(JSONError(404, "Task not found", Null), ts)
        ELSE IF db = 2 \/ upd.err
        THEN TaskError(InternalServerError("Failed to update task", Null), ts)
        ELSE TaskResult(200, "", task, <<>>, NoPagination, upd.rows)

DeleteTask(ts, ctx, id, db) ==
    LET entry == TaskHandlerEntry(ctx, Null)
        userID == UUIDParse(ctx.user_id).id
        taskID == UUIDParse(id)
        del == TaskDelete(ts, taskID.id, userID)
    IN  IF entry.status # 200 THEN TaskError(entry, ts)
        ELSE IF taskID.err
        THEN TaskError(BadRequest("Invalid task ID", Null), ts)
        ELSE IF db = 1 \/ del.err
        THEN TaskError(InternalServerError("Failed to delete task", Null), ts)
        ELSE TaskResult(204, "", NoTask, <<>>, NoPagination, del.rows)

\* ------------------------------------------------------------------------
\* Requests to the task routes, after AuthMiddleware has attached ctx
\* ------------------------------------------------------------------------
TaskFns == {"ListTasks", "CreateTask", "GetTask", "UpdateTask", "DeleteTask"}

\* the context AuthMiddleware attaches for the access token of user u
ContextOf(u) == [user_id |-> UUIDString(u), email |-> "a@b.com", set |-> TRUE]

\* the contexts of the users, none (the middleware did not run) and the one
\* of a token without user_id
Contexts ==
    {ContextOf(u) : u \in UUIDs}
    \cup {NoCtx, [user_id |-> EmptyStr, email |-> "", set |-> TRUE]}

\* the {id} of a path: the ids the table can hold, and a text that is no UUID
TaskIDs == {UUIDString(k) : k \in 1 .. MaxTasks} \cup {JunkStr}

NoQuery == [page |-> QueryAbsent, limit |-> QueryAbsent]

\* query strings: none, and the second page of pages of one task
Queries ==
    {NoQuery, [page |-> QueryInt(IntOf(2)), limit |-> QueryInt(IntOf(1))]}

\* bodies of POST /tasks: a title, with or without a user_id the decoder
\* ignores, no title, and a body that is no JSON
CreateRequests ==
    {[NoTaskReq EXCEPT !.title = "t1"],
     [NoTaskReq EXCEPT !.title = "t1", !.user_id = 1],
     NoTaskReq,
     [NoTaskReq EXCEPT !.json = FALSE]}

\* bodies of PUT /tasks/{id}: a status of the enumeration, another text, and
\* a body that is no JSON
UpdateRequests ==
    {[NoTaskReq EXCEPT !.status = "completed"],
     [NoTaskReq EXCEPT !.status = "done"],
     [NoTaskReq EXCEPT !.json = FALSE]}

TaskCall(fn, ctx, id, req, query, db, result) ==
    [fn |-> fn, ctx |-> ctx, id |-> id, req |-> req, query |-> query,
     db |-> db, result |-> result]

ListTasksCall(ctxs, queries) ==
    /\ call = NoCall
    /\ \E ctx \in ctxs, query \in queries, db \in 0 .. 1 :
        LET r == ListTasks(tasks, ctx, query, db)
        IN  /\ call' = TaskCall("ListTasks", ctx, EmptyStr, NoTaskReq, query, db, r)
            /\ tasks' = r.rows
    /\ UNCHANGED <<now, jwt, users, created, resp, consumed, boot, flight>>

CreateTaskCall(ctxs, reqs) ==
    /\ call = NoCall
    /\ Cardinality(tasks) < MaxTasks
    /\ \E ctx \in ctxs, req \in reqs, db \in 0 .. 1 :
        LET r == CreateTask(tasks, ctx, req, db, Cardinality(tasks) + 1)
        IN  /\ call' = TaskCall("CreateTask", ctx, EmptyStr, req, NoQuery, db, r)
            /\ tasks' = r.rows
    /\ UNCHANGED <<now, jwt, users, created, resp, consumed, boot, flight>>

GetTaskCall(ctxs, ids) ==
    /\ call = NoCall
    /\ \E ctx \in ctxs, id \in ids, db \in 0 .. 1 :
        LET r == GetTask(tasks, ctx, id, db)
        IN  /\ call' = TaskCall("GetTask", ctx, id, NoTaskReq, NoQuery, db, r)
            /\ tasks' = r.rows
    /\ UNCHANGED <<now, jwt, users, created, resp, consumed, boot, flight>>

UpdateTaskCall(ctxs, ids, reqs) ==
    /\ call = NoCall
    /\ \E ctx \in ctxs, id \in ids, req \in reqs, db \in 0 .. 2 :
        LET r == UpdateTask(tasks, ctx, id, req, db)
        IN  /\ call' = TaskCall("UpdateTask", ctx, id, req, NoQuery, db, r)
            /\ tasks' = r.rows
    /\ UNCHANGED <<now, jwt, users, created, resp, consumed, boot, flight>>

DeleteTaskCall(ctxs, ids) ==
    /\ call = NoCall
    /\ \E ctx \in ctxs, id \in ids, db \in 0 .. 1 :
        LET r == DeleteTask(tasks, ctx, id, db)
        IN  /\ call' = TaskCall("DeleteTask", ctx, id, NoTaskReq, NoQuery, db, r)
            /\ tasks' = r.rows
    /\ UNCHANGED <<now, jwt, users, created, resp, consumed, boot, flight>>

NextTasks ==
    \/ ListTasksCall(Contexts, Queries)
    \/ CreateTaskCall(Contexts, CreateRequests)
    \/ GetTaskCall(Contexts, TaskIDs)
    \/ UpdateTaskCall(Contexts, TaskIDs, UpdateRequests)
    \/ DeleteTaskCall(Contexts, TaskIDs)
    \/ Return

SpecTasks == Init /\ [][NextTasks]_vars

\* ------------------------------------------------------------------------
\* C22: tasks are private to their owner.
\* ------------------------------------------------------------------------
\* the authenticated identity of the task request that has run
Identity(c) == UUIDParse(c.ctx.user_id).id

\* the tasks a task request answered with
Returned(c) ==
    {c.result.tasks[i] : i \in 1 .. Len(c.result.tasks)}
    \cup (IF c.result.task # NoTask THEN {c.result.task} ELSE {})

\* C22: a task request of the authenticated identity U answers only with
\* tasks whose user_id is U
C22_ReturnsOwn ==
    call.fn \in TaskFns => \A t \in Returned(call) : t.UserID = Identity(call)

\* C22: a task request of the authenticated identity U leaves every row of
\* another user as it was, and the row CreateTask inserts carries U as its
\* user_id, whatever the body said
C22_ChangesOwn ==
    call'.fn \in TaskFns =>
        /\ \A t \in tasks : t.UserID # Identity(call') => t \in tasks'
        /\ \A t \in tasks' \ tasks : t.UserID = Identity(call')

\* C22: tasks are private to their owner: ListTasks, GetTask, UpdateTask and
\* DeleteTask with the authenticated identity U never return, modify or
\* delete a task whose user_id differs from U, and CreateTask stores the
\* task under the authenticated identity, never under a value of the body
C22_TasksPrivate == [](C22_ReturnsOwn) /\ [][C22_ChangesOwn]_vars

\* user 2 asked for, tried to update and tried to delete the task of user 1
\* and got 404, 404 and 500; user 1 created a task with a body naming
\* another user_id, and listed a task
C22_Witness ==
    /\ call.fn \in TaskFns
    /\ Identity(call) = 2
    /\ call.id = UUIDString(1)
    /\ \E t \in tasks : t.ID = 1 /\ t.UserID = 1 /\ ~t.Deleted
    /\ call.fn = "GetTask" => call.result.status = 404
    /\ call.fn = "UpdateTask" => call.result.status = 404
    /\ call.fn = "DeleteTask" => call.result.status = 500
    /\ call.fn \in {"GetTask", "UpdateTask", "DeleteTask"}

\* ------------------------------------------------------------------------
\* C23: a refresh token is no bearer credential.
\* ------------------------------------------------------------------------
\* the token that the Authorization header of the call carries
Presented(c) == TokenOf(bearerToken(c.hdr))

\* C23: a token produced by GenerateRefreshToken, presented as the bearer
\* credential, is never accepted by AuthMiddleware: the handler is not
\* invoked and no user_id, not even the empty one, is attached to the
\* context of the request
C23_RefreshIsNoBearer ==
    (/\ call.fn = "AuthMiddleware"
     /\ Presented(call) \in IssuedRefresh(jwt, now))
    => /\ ~call.first.next
       /\ call.first.ctx = NoCtx
       /\ call.handled = 0

\* ------------------------------------------------------------------------
\* Concurrent Register requests.  Each request of flight runs Register on
\* its own goroutine; a step is one call of the repository, and the calls of
\* different requests interleave.
\* ------------------------------------------------------------------------
\* the users table as the credential store create(email, credential, name)
\* -> Identity: every insert is answered with the new row
InsertUser(us, id, user) == [rows |-> Create(us, id, user), err |-> FALSE]

\* a request at position pc; user is the row it inserted, resp its answer
InFlight(pc, req, user, response) ==
    [op |-> "register", pc |-> pc, req |-> req, user |-> user,
     resp |-> response]

NoAnswer == [status |-> 0, body |-> NoResp.body]

\* a Register request arrives: the body is decoded and its fields checked
RegisterArrives ==
    /\ Len(flight) < MaxFlight
    /\ \E email \in Emails \cup {""} :
        LET req == [NoReq EXCEPT !.json = TRUE, !.email = email,
                       !.password = Secret1, !.name = "A"]
        IN  flight' = Append(flight,
                IF email = ""
                THEN InFlight("done", req, NoRow,
                         BadRequest("Email, password, and name are required",
                                    now))
                ELSE InFlight("GetByEmail", req, NoRow, NoAnswer))
    /\ UNCHANGED <<now, jwt, users, created, resp, consumed, call, boot, tasks>>

\* h.repo.User.GetByEmail of request i, and the answers that follow from it
RegisterGetByEmail ==
    /\ \E i \in DOMAIN flight, db \in 0 .. 1 :
        LET f == flight[i]
            existingUser == GetByEmail(users, f.req.email)
        IN  /\ f.pc = "GetByEmail"
            /\ flight' = [flight EXCEPT ![i] =
                 IF db = 1
                 THEN [f EXCEPT !.pc = "done",
                          !.resp = InternalServerError("Failed to register user",
                                                       now)]
                 ELSE IF existingUser # NoRow
                 THEN [f EXCEPT !.pc = "done",
                          !.resp = BadRequest("User with this email already exists",
                                              now)]
                 ELSE [f EXCEPT !.pc = "Create"]]
    /\ UNCHANGED <<now, jwt, users, created, resp, consumed, call, boot, tasks>>

\* auth.HashPassword and h.repo.User.Create of request i
RegisterCreate ==
    /\ created < MaxUsers
    /\ \E i \in DOMAIN flight, db \in {0, 2}, salt \in Salts,
          strict \in Builds(Secret1) :
        LET f == flight[i]
            passwordHash == HashPassword(f.req.password, salt, strict)
            user == [ID |-> created + 1, Email |-> f.req.email,
                     PasswordHash |-> passwordHash.hashed,
                     Name |-> f.req.name]
            ins == InsertUser(users, created + 1, user)
        IN  /\ f.pc = "Create"
            /\ IF passwordHash.err \/ db = 2 \/ ins.err
               THEN /\ flight' = [flight EXCEPT ![i] =
                         [f EXCEPT !.pc = "done",
                            !.resp = InternalServerError(
                                         "Failed to register user", now)]]
                    /\ UNCHANGED <<users, created>>
               ELSE /\ flight' = [flight EXCEPT ![i] =
                         [f EXCEPT !.pc = "GenerateTokenPair", !.user = user]]
                    /\ users' = ins.rows
                    /\ created' = created + 1
    /\ UNCHANGED <<now, jwt, resp, consumed, call, boot, tasks>>

\* h.jwtManager.GenerateTokenPair of request i and its 201
RegisterAnswers ==
    /\ \E i \in DOMAIN flight :
        LET f == flight[i]
            pair == GenerateTokenPair(jwt, f.user.ID, f.user.Email,
                                      [k \in 1 .. 6 |-> now])
        IN  /\ f.pc = "GenerateTokenPair"
            /\ flight' = [flight EXCEPT ![i] =
                 [f EXCEPT !.pc = "done",
                    !.resp = AuthResponse(201, f.user, pair.accessToken,
                                          pair.refreshToken)]]
    /\ UNCHANGED <<now, jwt, users, created, resp, consumed, call, boot, tasks>>

NextRegister ==
    \/ Tick
    \/ RegisterArrives
    \/ RegisterGetByEmail
    \/ RegisterCreate
    \/ RegisterAnswers

SpecRegister == Init /\ [][NextRegister]_vars

\* ------------------------------------------------------------------------
\* C24: concurrent registrations of one email.
\* ------------------------------------------------------------------------
\* the requests in flight for the email e that were answered 201 with a
\* token pair
Registered(e) ==
    {i \in DOMAIN flight :
        /\ flight[i].req.email = e
        /\ flight[i].resp.status = 201
        /\ flight[i].resp.body.token # <<>>}

\* C24: of the concurrent Register requests that carry the same email, at
\* most one creates a user record and returns a token pair, and the users
\* table never holds two users with the same email
C24_OneUserPerEmail ==
    /\ \A e \in Emails : Cardinality(Registered(e)) <= 1
    /\ \A u, v \in users : u.Email = v.Email => u = v

\* ------------------------------------------------------------------------
\* Concurrent UpdateTask requests.  A step is one call of the repository;
\* between its GetByID and its Update a request holds the task it read.
\* ------------------------------------------------------------------------
\* a request at position pc; task is the local task of the handler
Updating(pc, ctx, id, req, task, status) ==
    [op |-> "update", pc |-> pc, ctx |-> ctx, id |-> id, req |-> req,
     task |-> task, status |-> status]

\* bodies that set one field each
FieldUpdates ==
    {[NoTaskReq EXCEPT !.title = "t2"],
     [NoTaskReq EXCEPT !.status = "completed"]}

\* an UpdateTask request arrives: the context, the id of the path and the
\* body are checked
UpdateArrives ==
    /\ Len(flight) < MaxFlight
    /\ call = NoCall
    /\ \E u \in UUIDs, id \in {UUIDString(1), JunkStr}, req \in FieldUpdates :
        LET ctx == ContextOf(u)
            entry == TaskHandlerEntry(ctx, Null)
        IN  flight' = Append(flight,
                IF entry.status # 200
                THEN Updating("done", ctx, id, req, NoTask, entry.status)
                ELSE IF UUIDParse(id).err \/ ~req.json
                THEN Updating("done", ctx, id, req, NoTask, 400)
                ELSE Updating("GetByID", ctx, id, req, NoTask, 0))
    /\ UNCHANGED <<now, jwt, users, created, resp, consumed, call, boot, tasks>>

\* h.repo.Task.GetByID of request i and the update of the fields of the
\* task it returned
UpdateGetByID ==
    /\ \E i \in DOMAIN flight, db \in 0 .. 1 :
        LET f == flight[i]
            found == TaskGetByID(tasks, UUIDParse(f.id).id,
                                 UUIDParse(f.ctx.user_id).id)
        IN  /\ f.pc = "GetByID"
            /\ flight' = [flight EXCEPT ![i] =
                 IF db = 1 THEN [f EXCEPT !.pc = "done", !.status = 500]
                 ELSE IF found = NoTask
                 THEN [f EXCEPT !.pc = "done", !.status = 404]
                 ELSE [f EXCEPT !.pc = "Update",
                                !.task = ApplyUpdate(found, f.req)]]
    /\ UNCHANGED <<now, jwt, users, created, resp, consumed, call, boot, tasks>>

\* h.repo.Task.Update of request i with the task it holds, and its answer
UpdateWrites ==
    /\ \E i \in DOMAIN flight, db \in {0, 2} :
        LET f == flight[i]
            upd == TaskUpdate(tasks, f.task)
        IN  /\ f.pc = "Update"
            /\ IF db = 2 \/ upd.err
               THEN /\ flight' = [flight EXCEPT ![i] =
                                     [f EXCEPT !.pc = "done", !.status = 500]]
                    /\ UNCHANGED tasks
               ELSE /\ flight' = [flight EXCEPT ![i] =
                                     [f EXCEPT !.pc = "done", !.status = 200]]
                    /\ tasks' = upd.rows
    /\ UNCHANGED <<now, jwt, users, created, resp, consumed, call, boot>>

\* the first task is created before the updates arrive
NextUpdates ==
    \/ (/\ tasks = {}
        /\ flight = NoFlight
        /\ CreateTaskCall({ContextOf(u) : u \in UUIDs},
                          {[NoTaskReq EXCEPT !.title = "t1"]}))
    \/ Return
    \/ UpdateArrives
    \/ UpdateGetByID
    \/ UpdateWrites

SpecUpdates == Init /\ [][NextUpdates]_vars

\* ------------------------------------------------------------------------
\* C25: concurrent updates of different fields.
\* ------------------------------------------------------------------------
\* the request i was answered 200
Updated(i) == flight[i].pc = "done" /\ flight[i].status = 200

\* C25: when two UpdateTask requests of the owner on the same task, one
\* setting the title and the other the status, have both been answered 200,
\* the stored task has the new title and the new status: no interleaving of
\* their GetByID and Update steps loses one of the updates
C25_NoLostUpdate ==
    \A i, j \in DOMAIN flight :
        (/\ Updated(i) /\ Updated(j)
         /\ flight[i].id = flight[j].id
         /\ flight[i].req.title # "" /\ flight[j].req.status # "")
        => \A t \in tasks :
               t.ID = UUIDParse(flight[i].id).id
               => /\ t.Title = flight[i].req.title
                  /\ t.Status = flight[j].req.status

\* ------------------------------------------------------------------------
\* C26: the status of a stored task.
\* ------------------------------------------------------------------------
Statuses == {"pending", "in_progress", "completed"}

\* bodies of PUT /tasks/{id} that carry a status: the three of the
\* enumeration, none, and texts outside the enumeration
StatusUpdates ==
    {[NoTaskReq EXCEPT !.status = st] :
        st \in Statuses \cup {"", "done", "PENDING"}}

NextStatus ==
    \/ CreateTaskCall({ContextOf(1)}, {[NoTaskReq EXCEPT !.title = "t1"]})
    \/ UpdateTaskCall({ContextOf(1)}, TaskIDs, StatusUpdates)
    \/ DeleteTaskCall({ContextOf(1)}, TaskIDs)
    \/ Return

SpecStatus == Init /\ [][NextStatus]_vars

\* the status of the stored task with the id of the path of the call
StatusOf(ts, c) ==
    {t.Status : t \in {x \in ts : x.ID = UUIDParse(c.id).id}}

\* every stored task has a status of the enumeration, and the task that
\* CreateTask answers with is pending
C26_StoredStatus ==
    /\ \A t \in tasks : t.Status \in Statuses
    /\ (call.fn = "CreateTask" /\ call.result.status = 201)
       => /\ call.result.task.Status = "pending"
          /\ call.result.task \in tasks

\* UpdateTask sets the status of the task to the requested one when that is
\* of the enumeration; otherwise it leaves the status as it is and, the task
\* being there and the database answering, still responds 200
C26_UpdateStatus ==
    (call = NoCall /\ call'.fn = "UpdateTask")
    => /\ (call'.result.status = 200 /\ call'.req.status \in Statuses)
          => StatusOf(tasks', call') = {call'.req.status}
       /\ call'.req.status \notin Statuses
          => /\ \A t \in tasks : \E x \in tasks' :
                    x.ID = t.ID /\ x.Status = t.Status
             /\ (/\ call'.db = 0
                 /\ call'.req.json
                 /\ TaskRows(tasks, UUIDParse(call'.id).id,
                             Identity(call')) # {})
                => call'.result.status = 200

\* C26: the status of every stored task is one of pending, in_progress and
\* completed: CreateTask stores pending, and UpdateTask changes the status
\* only to one of the three, leaving it unchanged and still responding 200
\* when the requested status is empty or outside the enumeration
C26_StatusValid == [](C26_StoredStatus) /\ [][C26_UpdateStatus]_vars

\* an update with the status "done" of a task that is in progress was
\* answered 200 and the task is still in progress
C26_Witness ==
    /\ call.fn = "UpdateTask"
    /\ call.req.status = "done"
    /\ call.result.status = 200
    /\ call.result.task.Status = "in_progress"
    /\ StatusOf(tasks, call) = {"in_progress"}

\* ------------------------------------------------------------------------
\* C27: deletion is a permanent soft delete.
\* ------------------------------------------------------------------------
\* the rows with the id of the path of the call that belong to its identity
\* and are not deleted
Target(ts, c) ==
    {t \in ts : /\ t.ID = UUIDParse(c.id).id
                /\ t.UserID = Identity(c)
                /\ ~t.Deleted}

\* no answer carries a deleted task, and the total of a list is the number
\* of the tasks of the identity that are not deleted
C27_DeletedUnseen ==
    call.fn \in TaskFns =>
        /\ \A r \in Returned(call) : \A t \in tasks : t.ID = r.ID => ~t.Deleted
        /\ (call.fn = "ListTasks" /\ call.result.status = 200)
           => call.result.pagination.total =
                  Cardinality({t \in tasks : /\ t.UserID = Identity(call)
                                             /\ ~t.Deleted})

\* a deleted row stays as it is; a DeleteTask answered 204 has deleted the
\* task of its path; a DeleteTask of a task that is deleted, does not exist
\* or belongs to another user changes no row and is not answered 204
C27_DeletedStays ==
    /\ \A t \in tasks : t.Deleted => t \in tasks'
    /\ (call = NoCall /\ call'.fn = "DeleteTask")
       => /\ call'.result.status = 204
             => /\ Target(tasks, call') # {}
                /\ Target(tasks', call') = {}
          /\ Target(tasks, call') = {}
             => /\ tasks' = tasks
                /\ call'.result.status # 204

\* C27: once DeleteTask has succeeded for a task, the task is never again
\* returned by GetTask or ListTasks, is not counted in the total of the
\* list and cannot be changed by UpdateTask, and a further DeleteTask of it,
\* like that of a task that never existed or of another user's task, changes
\* no task and does not respond 204
C27_SoftDeletePermanent == [](C27_DeletedUnseen) /\ [][C27_DeletedStays]_vars

\* the owner asked to delete the task that is already deleted and was
\* answered 500, the row staying as it was
C27_Witness ==
    /\ call.fn = "DeleteTask"
    /\ call.db = 0
    /\ call.result.status = 500
    /\ \E t \in tasks : /\ t.ID = UUIDParse(call.id).id
                        /\ t.UserID = Identity(call)
                        /\ t.Deleted

\* ------------------------------------------------------------------------
\* The request log.  main wraps the router in RequestLoggingMiddleware; the
\* router runs AuthMiddleware in front of the task routes.  A request is its
\* header and its context, and WithContext returns a copy of the request.
\* ------------------------------------------------------------------------
Request(hdr, ctx) == [hdr |-> hdr, ctx |-> ctx]

\* http.Request.WithContext
WithContext(r, ctx) == [r EXCEPT !.ctx = ctx]

\* GetUserIDFromContext
GetUserIDFromContext(ctx) == [id |-> ctx.user_id, ok |-> ctx.set]

\* GET /v1/tasks through the router: AuthMiddleware, then ListTasks with
\* the request AuthMiddleware made; seen is the request the handler got
Router(j, ts, r, t) ==
    LET m == AuthMiddleware(j, r.hdr, t)
        seen == WithContext(r, m.ctx)
    IN  IF m.next
        THEN [next |-> TRUE, seen |-> seen,
              status |-> ListTasks(ts, seen.ctx, NoQuery, 0).status]
        ELSE [next |-> FALSE, seen |-> r, status |-> m.resp.status]

NoLogID == [id |-> EmptyStr, ok |-> FALSE]

\* RequestLoggingMiddleware: next.ServeHTTP(rec, r), then the fields of the
\* entry, with user_id when the context of r has one
RequestLoggingMiddleware(j, ts, r, t) ==
    LET served == Router(j, ts, r, t)
        userID == GetUserIDFromContext(r.ctx)
    IN  [served |-> served,
         entry |-> [msg |-> "http request completed",
                    status |-> served.status,
                    user_id |-> IF userID.ok THEN userID ELSE NoLogID]]

\* a request to GET /v1/tasks arrives at the server with a context without
\* values
LoggedRequest ==
    /\ call = NoCall
    /\ \E hdr \in Headers(jwt, now), rd \in Reads(1, now) :
        LET r == Request(hdr, NoCtx)
            l == RequestLoggingMiddleware(jwt, tasks, r, rd[1])
        IN  /\ call' = [fn |-> "RequestLoggingMiddleware", hdr |-> hdr,
                        served |-> l.served, entry |-> l.entry]
            /\ now' = rd[1]
    /\ UNCHANGED <<jwt, users, created, resp, consumed, boot, tasks, flight>>

NextLogged ==
    \/ Tick
    \/ LoggedRequest
    \/ Return

SpecLogged == Init /\ [][NextLogged]_vars

\* ------------------------------------------------------------------------
\* C28: the request log names the authenticated user.
\* ------------------------------------------------------------------------
\* C28: for every request that AuthMiddleware authenticated, the entry
\* "http request completed" that RequestLoggingMiddleware writes after the
\* handler has returned contains the user_id that AuthMiddleware attached
\* to the context of the request
C28_LogNamesUser ==
    (call.fn = "RequestLoggingMiddleware" /\ call.served.next)
    => /\ call.entry.msg = "http request completed"
       /\ call.entry.user_id.ok
       /\ call.entry.user_id.id = call.served.seen.ctx.user_id

\* ------------------------------------------------------------------------
\* initDatabase, statement by statement.  call holds the locals of the
\* running function: i, db (0 for nil, otherwise the number of the attempt
\* that opened the connection), err, the outcomes of the attempts so far
\* and the attempts after which it slept.
\* ------------------------------------------------------------------------
maxRetries == 5

\* if i < maxRetries-1 without the test: the loop sleeps after every attempt
SleepsAlways(i) == TRUE

\* if i < maxRetries-1 { time.Sleep(retryDelay) }
Sleeps(i) == i < maxRetries - 1

NoDB == 0

InitDatabaseAt(pc, i, db, err, tried, slept, result) ==
    [fn |-> "initDatabase", pc |-> pc, i |-> i, db |-> db, err |-> err,
     tried |-> tried, slept |-> slept, result |-> result]

NoReturn == [db |-> NoDB, err |-> ""]

\* db, err := initDatabase(cfg.Database) is called: i := 0
InitDatabaseCall ==
    /\ call = NoCall
    /\ call' = InitDatabaseAt("for", 0, NoDB, "", <<>>, {}, NoReturn)
    /\ UNCHANGED <<now, jwt, users, created, resp, consumed, boot, tasks, flight>>

\* for ...; i < maxRetries; ...
InitDatabaseFor ==
    /\ call # NoCall
    /\ call.pc = "for"
    /\ call' = [call EXCEPT !.pc = IF call.i < maxRetries THEN "Open"
                                   ELSE "after"]
    /\ UNCHANGED <<now, jwt, users, created, resp, consumed, boot, tasks, flight>>

\* db, err = sql.Open("pgx", dsn)
InitDatabaseOpen ==
    /\ call # NoCall
    /\ call.pc = "Open"
    /\ \E ok \in BOOLEAN :
        call' = IF ok
                THEN [call EXCEPT !.pc = "Ping", !.db = call.i + 1, !.err = ""]
                ELSE [call EXCEPT !.pc = "tail", !.db = NoDB, !.err = "open",
                                  !.tried = Append(@, "open")]
    /\ UNCHANGED <<now, jwt, users, created, resp, consumed, boot, tasks, flight>>

\* err = db.PingContext(ctx) under its timeout of 5 seconds, and the break
InitDatabasePing ==
    /\ call # NoCall
    /\ call.pc = "Ping"
    /\ \E ok \in BOOLEAN :
        call' = IF ok
                THEN [call EXCEPT !.pc = "after", !.err = "",
                                  !.tried = Append(@, "ok")]
                ELSE [call EXCEPT !.pc = "tail", !.err = "ping",
                                  !.tried = Append(@, "ping")]
    /\ UNCHANGED <<now, jwt, users, created, resp, consumed, boot, tasks, flight>>

\* the sleep at the end of the body of the loop, and i++
InitDatabaseSleep ==
    /\ call # NoCall
    /\ call.pc = "tail"
    /\ call' = [call EXCEPT !.pc = "for", !.i = @ + 1,
                   !.slept = IF Sleeps(call.i) THEN @ \cup {call.i + 1}
                             ELSE @]
    /\ UNCHANGED <<now, jwt, users, created, resp, consumed, boot, tasks, flight>>

\* if err != nil { return nil, ... }; the pool settings; return db, nil
InitDatabaseReturn ==
    /\ call # NoCall
    /\ call.pc = "after"
    /\ call' = [call EXCEPT !.pc = "return",
                   !.result = IF call.err # ""
                              THEN [db |-> NoDB,
                                    err |-> "database connection failed"]
                              ELSE [db |-> call.db, err |-> ""]]
    /\ UNCHANGED <<now, jwt, users, created, resp, consumed, boot, tasks, flight>>

\* the caller has the result
InitDatabaseReturned ==
    /\ call # NoCall
    /\ call.pc = "return"
    /\ Return

NextInitDatabase ==
    \/ InitDatabaseCall
    \/ InitDatabaseFor
    \/ InitDatabaseOpen
    \/ InitDatabasePing
    \/ InitDatabaseSleep
    \/ InitDatabaseReturn
    \/ InitDatabaseReturned

\* every statement of initDatabase returns: sql.Open does not block and the
\* ping and the sleep are bounded by their durations
SpecInitDatabase ==
    Init /\ [][NextInitDatabase]_vars /\ WF_vars(NextInitDatabase)

\* ------------------------------------------------------------------------
\* C29: initDatabase makes at most 5 attempts.
\* ------------------------------------------------------------------------
Attempts == 5

Failed(k) == call.tried[k] # "ok"

\* initDatabase never makes more than 5 attempts, no attempt follows one
\* that succeeded, and it has slept after exactly the failed attempts that
\* were not the fifth and are not the one whose end it has yet to reach
C29_Running ==
    call # NoCall =>
        /\ Len(call.tried) <= Attempts
        /\ \A k \in 1 .. Len(call.tried) - 1 : Failed(k)
        /\ call.pc \in {"for", "after", "return"}
           => call.slept = {k \in 1 .. Len(call.tried) :
                               Failed(k) /\ k < Attempts}

\* initDatabase returns the connection of the attempt that succeeded, the
\* last one it made, and otherwise, all 5 attempts having failed, an error
\* and no connection
C29_Result ==
    (call # NoCall /\ call.pc = "return") =>
        LET n == Len(call.tried)
        IN  /\ n >= 1
            /\ call.result.err = "" <=> ~Failed(n)
            /\ call.result.err = "" => call.result.db = n
            /\ call.result.err # ""
               <=> (n = Attempts /\ \A k \in 1 .. n : Failed(k))
            /\ call.result.err # "" => call.result.db = NoDB

C29_Terminates ==
    (call # NoCall) ~> (call # NoCall /\ call.pc = "return")

\* C29: initDatabase always terminates after at most 5 connection attempts:
\* it stops at the first attempt whose open and ping both succeed and
\* returns that connection, it waits between attempts but not after the
\* fifth, and it returns an error and no connection exactly when all 5
\* attempts failed
C29_InitDatabase == [](C29_Running) /\ [](C29_Result) /\ C29_Terminates

\* all five attempts failed: the error is returned after four sleeps
C29_Witness ==
    /\ call # NoCall
    /\ call.pc = "return"
    /\ Len(call.tried) = Attempts
    /\ call.slept = 1 .. 4
    /\ call.result.err # ""

\* ------------------------------------------------------------------------
\* GET /v1/tasks with every kind of page and limit
\* ------------------------------------------------------------------------
\* the values of a query parameter: absent, no number, zero, negative,
\* small, around the cap of the limit, and the largest int
QueryValues ==
    {QueryAbsent, QueryJunk}
    \cup {QueryInt(IntOf(n)) : n \in {0 - 1, 0, 1, 2, 100, 101}}
    \cup {QueryInt(MaxInt)}

PageQueries == [page : QueryValues, limit : QueryValues]

NextPages ==
    \/ CreateTaskCall({ContextOf(1)}, {[NoTaskReq EXCEPT !.title = "t1"]})
    \/ ListTasksCall({ContextOf(1)}, PageQueries)
    \/ Return

SpecPages == Init /\ [][NextPages]_vars

\* ------------------------------------------------------------------------
\* C30: the bounds of the pagination.
\* ------------------------------------------------------------------------
\* n is the ceiling of total / limit
Ceiling(n, total, limit) ==
    /\ n * limit >= total
    /\ (n - 1) * limit < total

\* C30: for every value of the page and limit query parameters (absent,
\* not numeric, zero, negative or arbitrarily large) the page is at least 1
\* and the limit between 1 and 100, with the defaults page 1 and limit 10
\* and a limit above 100 cut to 100; the row offset (page-1)*limit that
\* ListTasks then uses is never negative, and total_pages is the ceiling of
\* total/limit
C30_Pagination ==
    (call.fn = "ListTasks" /\ call.db = 0) =>
        /\ ~Negative(call.result.offset)
        /\ call.result.status = 200
        /\ LET p == call.result.pagination
               q == call.query
           IN  /\ ~Less(p.page, 1)
               /\ ~Less(p.limit, 1) /\ ~Greater(p.limit, 100)
               /\ q.page.kind # "int" => p.page = IntOf(1)
               /\ q.limit.kind # "int" => p.limit = IntOf(10)
               /\ (q.limit.kind = "int" /\ Greater(q.limit.n, 100))
                  => p.limit = IntOf(100)
               /\ Ceiling(p.total_pages, p.total, Small(p.limit))

====
